---- MODULE Spec2Model ----
(***************************************************************************)
(* Model of src/figma-plugin/code.ts: the session tracker (sessionState),  *)
(* the message dispatcher (figma.ui.onmessage) with its command handlers,  *)
(* and the part of the host document (pages, scene nodes, focused page,    *)
(* selection) that the handlers read and write.                            *)
(***************************************************************************)
EXTENDS Integers, Sequences, FiniteSets, TLC

\* ---------------------------------------------------------------- bounds
MaxNodes == 4      \* node ids the host issues (pages included)
MaxBuild == 2      \* further node ids the host issues when elements are built alone
MaxMsgs  == 2      \* inbound messages delivered to the dispatcher
MaxTime  == 1      \* latest instant the clock (Date.now()) reaches
MaxPageNames == 2  \* longest `pages` array of a CREATE_WIREFRAME payload
MaxCalls == 3      \* sessionState method calls explored by SpecTracker
InitPages == 2     \* pages of the host document at plugin start
MaxHexLen == 4     \* longest digit string tried after '#', before doubling
MaxValues == 4     \* most numbers inside an rgb(...) or hsl(...) string
MaxLinks == 2      \* entries of the `links` list of a NAVBAR
MaxWeight == 9     \* hundreds of the largest fontWeight tried

NULL == 0          \* null / undefined / '' (every falsy reference)
Ids  == 1..(MaxNodes + MaxBuild)

VARIABLES
  \* host document
  live,              \* ids of the nodes that exist (pages and scene nodes)
  ntype,             \* id -> node type ("NONE" while the id is not issued)
  nparent,           \* id -> id of the parent (NULL for a page)
  nextId,            \* next id the host issues
  currentPage,       \* figma.currentPage
  \* sessionState
  activeWireframeId,
  activePageId,
  createdPages,      \* wireframeId -> [name, wireframeId, pageIds, createdAt]
  \* Date.now()
  now,
  \* dispatcher
  nextMsg,           \* sequence number of the next inbound message
  tasks,             \* sequence number -> the handler invocation of it
  posted,            \* responses handed to figma.ui.postMessage, in order
  \* observation of the latest step
  finished,          \* the handler invocations that ended in the latest step
  gapRet,            \* values getActivePageId returned in the latest step
  touched,           \* existing nodes whose properties the latest step set
  lastOp,            \* what the latest step was
  ncalls,            \* sessionState methods called directly (SpecTracker)
  \* one call of a function of the plugin, on its own
  arg,               \* the arguments of the call
  out                \* what the call has computed so far

hostVars    == <<live, ntype, nparent, nextId, currentPage>>
sessionVars == <<activeWireframeId, activePageId, createdPages>>
dispVars    == <<nextMsg, tasks, posted, finished>>
vars == <<live, ntype, nparent, nextId, currentPage,
          activeWireframeId, activePageId, createdPages, now,
          nextMsg, tasks, posted, finished, gapRet, touched, lastOp, ncalls,
          arg, out>>
callVars == <<arg, out>>

\* ------------------------------------------------------- host document
Host == [live |-> live, ntype |-> ntype, nparent |-> nparent, nextId |-> nextId]

\* figma.getNodeById
GetNodeById(h, id) == IF id \in h.live THEN id ELSE NULL

IsPage(h, id) == id \in h.live /\ h.ntype[id] = "PAGE"

ContainerTypes == {"FRAME", "GROUP", "COMPONENT", "COMPONENT_SET", "INSTANCE"}

\* figma.createRectangle / createFrame / createText ...: the host issues a
\* fresh id and parents the node to the focused page.
CreateNode(h, type, page) ==
  [h EXCEPT !.live = @ \cup {h.nextId},
            !.ntype[h.nextId] = type,
            !.nparent[h.nextId] = page,
            !.nextId = @ + 1]

\* parent.appendChild(child)
AppendChild(h, parent, child) == [h EXCEPT !.nparent[child] = parent]

RECURSIVE Ancestors(_, _, _)
Ancestors(h, id, fuel) ==
  IF fuel = 0 \/ id = NULL \/ h.nparent[id] = NULL THEN {}
  ELSE {h.nparent[id]} \cup Ancestors(h, h.nparent[id], fuel - 1)

\* the node and everything below it
Subtree(h, id) == {id} \cup {n \in h.live : id \in Ancestors(h, n, MaxNodes)}

PageOf(h, id) ==
  IF IsPage(h, id) THEN id
  ELSE LET ps == {p \in Ancestors(h, id, MaxNodes) : h.ntype[p] = "PAGE"}
       IN IF ps = {} THEN NULL ELSE CHOOSE p \in ps : TRUE

LivePages == {p \in live : ntype[p] = "PAGE"}
SceneNodes == {n \in live : ntype[n] # "PAGE"}

\* figma.currentPage.selection
CurrentSelection(h, cur, sel) ==
  IF sel # NULL /\ sel \in h.live /\ PageOf(h, sel) = cur THEN <<sel>> ELSE <<>>

\* ------------------------------------------------------- sessionState
Session == [awf |-> activeWireframeId, apg |-> activePageId, cp |-> createdPages]

SetActiveWireframeOverwrite(s, wireframeId, pageId, name, t) ==
  [awf |-> wireframeId, apg |-> pageId,
   cp |-> [k \in DOMAIN s.cp \cup {wireframeId} |->
             IF k = wireframeId
             THEN [name |-> name, wireframeId |-> wireframeId,
                   pageIds |-> <<pageId>>, createdAt |-> t]
             ELSE s.cp[k]]]

\* the wireframe is made active without an entry in createdPages
SetActiveWireframeUnrecorded(s, wireframeId, pageId, name, t) ==
  [s EXCEPT !.awf = wireframeId, !.apg = pageId]

SetActiveWireframe(s, wireframeId, pageId, name, t) ==
  [awf |-> wireframeId, apg |-> pageId,
   cp |-> IF wireframeId \in DOMAIN s.cp THEN s.cp
          ELSE [k \in DOMAIN s.cp \cup {wireframeId} |->
                  IF k = wireframeId
                  THEN [name |-> name, wireframeId |-> wireframeId,
                        pageIds |-> <<pageId>>, createdAt |-> t]
                  ELSE s.cp[k]]]

GetActivePageIdUnverified(s, h, cur) ==
  IF s.apg # NULL THEN [s |-> s, ret |-> s.apg] ELSE [s |-> s, ret |-> cur]

GetActivePageIdKeepStale(s, h, cur) ==
  IF s.apg # NULL /\ GetNodeById(h, s.apg) # NULL
  THEN [s |-> s, ret |-> s.apg]
  ELSE [s |-> s, ret |-> cur]

\* returns the session after the call and the returned id
GetActivePageId(s, h, cur) ==
  IF s.apg # NULL
  THEN IF GetNodeById(h, s.apg) # NULL
       THEN [s |-> s, ret |-> s.apg]
       ELSE [s |-> [s EXCEPT !.apg = NULL], ret |-> cur]
  ELSE [s |-> s, ret |-> cur]

\* returns the session, the focused page and the boolean result
SwitchToPage(s, h, cur, pageId) ==
  IF GetNodeById(h, pageId) # NULL /\ h.ntype[pageId] = "PAGE"
  THEN [s |-> [s EXCEPT !.apg = pageId], cur |-> pageId, ret |-> TRUE]
  ELSE [s |-> s, cur |-> cur, ret |-> FALSE]

AddNodeToWireframePrepend(s, wireframeId, node, t) ==
  IF wireframeId = NULL \/ node = NULL THEN s
  ELSE IF wireframeId \in DOMAIN s.cp
       THEN [s EXCEPT !.cp[wireframeId].pageIds = <<node>> \o @,
                      !.cp[wireframeId].createdAt = t]
       ELSE s

AddNodeToWireframe(s, wireframeId, node, t) ==
  IF wireframeId = NULL \/ node = NULL THEN s
  ELSE IF wireframeId \in DOMAIN s.cp
       THEN [s EXCEPT !.cp[wireframeId].pageIds = Append(@, node),
                      !.cp[wireframeId].createdAt = t]
       ELSE s

\* ---------------------------------------------------------------- Init
\* The unsolicited notification posted at start-up (no response marker).
PluginStarted ==
  [type |-> "PLUGIN_STARTED", success |-> TRUE, hasData |-> TRUE,
   hasError |-> FALSE, error |-> <<>>, id |-> NULL, isResponse |-> FALSE]

Started ==
  /\ live = 1..InitPages
  /\ ntype = [i \in Ids |-> IF i <= InitPages THEN "PAGE" ELSE "NONE"]
  /\ nparent = [i \in Ids |-> NULL]
  /\ nextId = InitPages + 1
  /\ currentPage = 1
  /\ activeWireframeId = NULL
  /\ activePageId = NULL
  /\ createdPages = <<>>
  /\ now = 0
  /\ nextMsg = 1
  /\ tasks = <<>>
  /\ posted = <<PluginStarted>>
  /\ finished = {}
  /\ gapRet = {}
  /\ touched = {}
  /\ lastOp = "init"
  /\ ncalls = 0

Init == Started /\ arg = <<>> /\ out = <<>>

\* ------------------------------------------- the user and the clock
Quiet ==
  /\ posted' = <<>> /\ finished' = {} /\ gapRet' = {} /\ touched' = {}
  /\ lastOp' = "environment" /\ ncalls' = ncalls
  /\ UNCHANGED callVars

\* A page deleted interactively; the host keeps at least one page and
\* focuses another page when the focused one goes.
UserDeletePage ==
  \E p \in LivePages :
    /\ Cardinality(LivePages) > 1
    /\ live' = live \ Subtree(Host, p)
    /\ \E q \in LivePages \ {p} :
         currentPage' = IF currentPage = p THEN q ELSE currentPage
    /\ Quiet
    /\ UNCHANGED <<ntype, nparent, nextId, sessionVars, now, nextMsg, tasks>>

UserSwitchPage ==
  \E p \in LivePages \ {currentPage} :
    /\ currentPage' = p
    /\ Quiet
    /\ UNCHANGED <<live, ntype, nparent, nextId, sessionVars, now, nextMsg, tasks>>

UserDeleteNode ==
  \E n \in SceneNodes :
    /\ live' = live \ Subtree(Host, n)
    /\ Quiet
    /\ UNCHANGED <<ntype, nparent, nextId, currentPage, sessionVars, now, nextMsg, tasks>>

\* Date.now(): a reading is the previous reading or a later instant.
Clock == {t \in now..(now + 1) : t <= MaxTime}

\* ------------------------------------- sessionState, method by method
SetSession(s) ==
  /\ activeWireframeId' = s.awf
  /\ activePageId' = s.apg
  /\ createdPages' = s.cp

WfNames == {"Landing", "Shop"}

Called(op) ==
  /\ ncalls < MaxCalls /\ ncalls' = ncalls + 1 /\ lastOp' = op
  /\ touched' = {}
  /\ UNCHANGED callVars

CallSetActiveWireframe(w, p, n) ==
  /\ Called("setActiveWireframe")
  /\ \E t \in Clock : /\ now' = t
                      /\ SetSession(SetActiveWireframe(Session, w, p, n, t))
  /\ gapRet' = {}
  /\ UNCHANGED <<hostVars, dispVars>>

CallGetActivePageId ==
  LET r == GetActivePageId(Session, Host, currentPage)
  IN /\ Called("getActivePageId")
     /\ SetSession(r.s)
     /\ gapRet' = {r.ret}
     /\ UNCHANGED <<hostVars, now, dispVars>>

CallSwitchToPage(p) ==
  LET r == SwitchToPage(Session, Host, currentPage, p)
  IN /\ Called("switchToPage")
     /\ SetSession(r.s)
     /\ currentPage' = r.cur
     /\ gapRet' = {}
     /\ UNCHANGED <<live, ntype, nparent, nextId, now, dispVars>>

CallAddNodeToWireframe(w, n) ==
  /\ Called("addNodeToWireframe")
  /\ \E t \in Clock : /\ now' = t
                      /\ SetSession(AddNodeToWireframe(Session, w, n, t))
  /\ gapRet' = {}
  /\ UNCHANGED <<hostVars, dispVars>>

\* The ids the calls range over: a page id or a frame id as the wireframe
\* key (what handleCreateWireframe passes), scene-node ids as nodes.
SceneIds == {InitPages + 1}
KeyArgs  == SceneIds \cup {1}

TrackerNext ==
  \/ \E w \in KeyArgs, n \in WfNames : CallSetActiveWireframe(w, currentPage, n)
  \/ CallGetActivePageId
  \/ \E p \in LivePages \cup {nextId} : CallSwitchToPage(p)
  \/ \E w \in KeyArgs \cup {NULL}, n \in SceneIds \cup {NULL} : CallAddNodeToWireframe(w, n)
  \/ UserDeletePage
  \/ UserSwitchPage

SpecTracker == Init /\ [][TrackerNext]_vars

\* ------------------------------------------ envelopes and responses
\* The fields of a payload the handlers branch on.  n is the length of
\* `pages` (-1: a value that is not iterable; absent defaults to one page);
\* bad marks a style that is not a string, or paints the host rejects; ref is
\* the node id the command names (parent, elementId, parentId); text, title
\* and styled tell whether text content, a title or name, and a font weight
\* were supplied; sel is the `selection` list of an export.
NoPayload ==
  [present |-> FALSE, n |-> 1, bad |-> FALSE, name |-> "Untitled Wireframe",
   elementType |-> "", ref |-> NULL, text |-> FALSE, title |-> FALSE,
   styled |-> FALSE, sel |-> <<>>]

Payload == [NoPayload EXCEPT !.present = TRUE]

Msg(type, id, isResponse, p) ==
  [type |-> type, id |-> id, isResponse |-> isResponse, p |-> p]

Response(type, success, hasData, hasError, error, id) ==
  [type |-> type, success |-> success, hasData |-> hasData,
   hasError |-> hasError, error |-> error, id |-> id, isResponse |-> FALSE]

\* What a handler works on: the host document, the session, the focused page,
\* and what it has emitted so far (responses, getActivePageId results, the
\* nodes it set properties of, the selected node it read).
\* t is what Date.now() returns during the step, read whether it was called.
Ctx(t) ==
  [h |-> Host, s |-> Session, cur |-> currentPage, gap |-> {}, posts |-> <<>>,
   touched |-> {}, picked |-> NULL, t |-> t, read |-> FALSE]

SendResponse(c, response) ==
  [c EXCEPT !.posts = Append(@, [response EXCEPT !.isResponse = TRUE])]

\* sessionState.getActivePageId() called by a handler
ActivePage(c) ==
  LET r == GetActivePageId(c.s, c.h, c.cur)
  IN [c |-> [c EXCEPT !.s = r.s, !.gap = @ \cup {r.ret}], ret |-> r.ret]

\* node is the id of the node the data describe (NULL: none)
CreateErrorResponseWithData(message) ==
  [success |-> FALSE, hasError |-> TRUE, error |-> message, hasData |-> TRUE,
   node |-> NULL]

CreateErrorResponse(message) ==
  [success |-> FALSE, hasError |-> TRUE, error |-> message, hasData |-> FALSE,
   node |-> NULL]

CreateSuccessResponse ==
  [success |-> TRUE, hasError |-> FALSE, error |-> <<>>, hasData |-> TRUE,
   node |-> NULL]

\* How a handler invocation leaves a step: finished, thrown, or suspended
\* at an await (pc, loc) until the host settles the promise.
NoLoc ==
  [main |-> NULL, text |-> NULL, aux |-> NULL, pp |-> NULL, pf |-> NULL,
   els |-> <<>>, pend |-> {}]
NoResult == CreateSuccessResponse

Done(c)   == [c |-> c, pc |-> "done", loc |-> NoLoc, thrown |-> <<>>, result |-> NoResult]
Throw(c, e) == [c |-> c, pc |-> "done", loc |-> NoLoc, thrown |-> e, result |-> NoResult]
Await(c, pc, loc) == [c |-> c, pc |-> pc, loc |-> loc, thrown |-> <<>>, result |-> NoResult]
Return(c, res) == [c |-> c, pc |-> "done", loc |-> NoLoc, thrown |-> <<>>, result |-> res]
\* finished after posting a response whose data describe a node
Created(c, node) == Return(c, [NoResult EXCEPT !.node = node])
\* a property of an existing node is set
Touch(c, node) == [c EXCEPT !.touched = @ \cup {node}]

\* ------------------------------------------------- command handlers
HandleUiReady(c, m) ==
  Done(SendResponse(c, Response("UI_READY", TRUE, TRUE, FALSE, <<>>, NULL)))

HandleUnknownSilent(c, m) ==
  Done(SendResponse(c, Response(m.type, FALSE, FALSE, TRUE,
                                <<"Unknown command type: ">>, m.id)))

HandleUnknown(c, m) ==
  Done(SendResponse(c, Response(m.type, FALSE, FALSE, TRUE,
                                <<"Unknown command type: ", m.type>>, m.id)))

RECURSIVE CreateFrames(_, _, _)
CreateFrames(h, k, page) ==
  IF k = 0 THEN h
  ELSE CreateFrames(AppendChild(CreateNode(h, "FRAME", NULL), page, h.nextId), k - 1, page)

HandleCreateWireframe(c, m) ==
  IF ~m.p.present
  THEN Throw(c, <<"No payload provided for CREATE_WIREFRAME command">>)
  ELSE IF m.p.n < 0
  THEN Throw(c, <<"pages is not iterable">>)
  ELSE IF m.p.n > 0 /\ m.p.bad
  THEN Throw([c EXCEPT !.h = CreateFrames(c.h, 1, c.cur)],
             <<"style.toLowerCase is not a function">>)
  ELSE LET activePage == c.cur
           wireframeId == IF m.p.n > 0 THEN c.h.nextId ELSE activePage
           h1 == CreateFrames(c.h, m.p.n, activePage)
           s1 == SetActiveWireframe(c.s, wireframeId, activePage, m.p.name, c.t)
       IN Done(SendResponse([c EXCEPT !.h = h1, !.s = s1, !.read = TRUE],
                            Response(m.type, TRUE, TRUE, FALSE, <<>>, m.id)))

HandleModifyElementUnchecked(c, m) ==
  IF ~m.p.present
  THEN Throw(c, <<"Cannot destructure property 'elementId' of undefined">>)
  ELSE Done(SendResponse(c, Response(m.type, TRUE, FALSE, FALSE, <<>>, m.id)))

HandleModifyElement(c, m) ==
  IF ~m.p.present
  THEN Throw(c, <<"Cannot destructure property 'elementId' of undefined">>)
  ELSE IF GetNodeById(c.h, m.p.ref) = NULL
  THEN Throw(c, <<"Element not found: ", "<id>">>)
  ELSE Done(SendResponse(c, Response(m.type, TRUE, FALSE, FALSE, <<>>, m.id)))

HandleArrangeLayout(c, m) ==
  IF ~m.p.present
  THEN Throw(c, <<"Cannot destructure property 'parentId' of undefined">>)
  ELSE IF GetNodeById(c.h, m.p.ref) = NULL \/ c.h.ntype[m.p.ref] # "FRAME"
  THEN Throw(c, <<"Invalid parent node for layout: ", "<id>">>)
  ELSE Done(SendResponse(Touch(c, m.p.ref),
                         Response(m.type, TRUE, FALSE, FALSE, <<>>, m.id)))

\* "Get active page context first": figma.currentPage follows the active page
FocusActivePage(c) ==
  LET a == ActivePage(c)
  IN IF a.ret # NULL /\ GetNodeById(c.h, a.ret) # NULL /\ IsPage(c.h, a.ret)
     THEN [a.c EXCEPT !.cur = a.ret]
     ELSE a.c

HandleGetSelection(c, m) ==
  LET c1 == FocusActivePage(c)
      c2 == ActivePage(c1).c
  IN Done(SendResponse(c2, Response(m.type, TRUE, TRUE, FALSE, <<>>, m.id)))

\* the current-page query switching to the active page as the selection
\* query does
HandleGetCurrentPageFocusing(c, m) ==
  LET c1 == FocusActivePage(c)
      c2 == ActivePage(c1).c
  IN Done(SendResponse(c2, Response(m.type, TRUE, TRUE, FALSE, <<>>, m.id)))

HandleGetCurrentPage(c, m) ==
  LET c1 == ActivePage(c).c
      c2 == ActivePage(c1).c
  IN Done(SendResponse(c2, Response(m.type, TRUE, TRUE, FALSE, <<>>, m.id)))

\* handleExportDesign up to Promise.all: every export is started at once
Exportable(h, ids) == {ids[i] : i \in DOMAIN ids} \cap h.live

HandleExportDesign(c, m, sel) ==
  IF ~m.p.present
  THEN Throw(c, <<"No payload provided for EXPORT_DESIGN command">>)
  ELSE LET c1 == FocusActivePage(c)
           picked == CurrentSelection(c1.h, c1.cur, sel)
           nodesToExport ==
             IF Len(m.p.sel) > 0 THEN Exportable(c1.h, m.p.sel)
             ELSE IF Len(picked) > 0 THEN Exportable(c1.h, picked)
             ELSE {c1.cur}
       IN IF nodesToExport = {}
          THEN Throw(c1, <<"No valid nodes to export. Please select at least one node or specify node IDs.">>)
          ELSE Await(c1, "export", [NoLoc EXCEPT !.pend = nodesToExport])

ResumeExportDesignFirst(c, m, loc, n, ok) ==
  IF ~ok
  THEN Throw(c, <<"Export failed: ", "host error">>)
  ELSE LET c1 == ActivePage(c).c
       IN Done(SendResponse(c1, Response(m.type, TRUE, TRUE, FALSE, <<>>, m.id)))

\* one exportAsync promise settles: Promise.all rejects at the first
\* rejection and resolves when the last export has resolved
ResumeExportDesign(c, m, loc, n, ok) ==
  IF ~ok
  THEN Throw(c, <<"Export failed: ", "host error">>)
  ELSE IF loc.pend # {n}
  THEN Await(c, "export", [loc EXCEPT !.pend = @ \ {n}])
  ELSE LET c1 == ActivePage(c).c
       IN Done(SendResponse(c1, Response(m.type, TRUE, TRUE, FALSE, <<>>, m.id)))

\* the tail of handleStyleElement: the success response with session context
StyleElementRespond(c, m) ==
  LET c1 == ActivePage(c).c
  IN Done(SendResponse(c1, Response(m.type, TRUE, TRUE, FALSE, <<>>, m.id)))

HandleStyleElement(c, m, sel) ==
  IF ~m.p.present
  THEN Throw(c, <<"No payload provided for STYLE_ELEMENT command">>)
  ELSE LET c0 == FocusActivePage(c)
           picked == CurrentSelection(c0.h, c0.cur, sel)
           resolved == m.p.ref # NULL /\ GetNodeById(c0.h, m.p.ref) # NULL
           c1 == IF ~resolved /\ Len(picked) > 0
                 THEN [c0 EXCEPT !.picked = picked[1]] ELSE c0
           targetElement ==
             IF resolved THEN m.p.ref
             ELSE IF Len(picked) > 0 THEN picked[1]
             ELSE NULL
       IN IF targetElement = NULL
          THEN IF m.p.ref = NULL
               THEN Throw(c1, <<"No element ID provided and no selection exists">>)
               ELSE Throw(c1, <<"Element not found: ", "<id>", " and no selection exists">>)
          ELSE LET c2 == IF m.p.title THEN Touch(c1, targetElement) ELSE c1
               IN IF c1.h.ntype[targetElement] = "TEXT"
                  THEN Await(c2, "style.font", [NoLoc EXCEPT !.main = targetElement])
                  ELSE StyleElementRespond(c2, m)

\* applyTextStyles after a loadFontAsync settles.  A write to a node the user
\* removed meanwhile is refused by the host; inside the fontWeight block the
\* refusal is swallowed.
ResumeStyleElement(c, m, pc, loc, ok) ==
  IF pc = "style.font"
  THEN IF ~ok
       THEN Throw(c, <<"Failed to style element: ", "host error">>)
       ELSE IF m.p.text /\ GetNodeById(c.h, loc.main) = NULL
       THEN Throw(c, <<"Failed to style element: ", "host error">>)
       ELSE LET c1 == IF m.p.text THEN Touch(c, loc.main) ELSE c
            IN IF m.p.styled /\ GetNodeById(c.h, loc.main) # NULL
               THEN Await(c1, "style.weight", loc)
               ELSE StyleElementRespond(c1, m)
  ELSE StyleElementRespond(IF ok /\ GetNodeById(c.h, loc.main) # NULL
                           THEN Touch(c, loc.main) ELSE c, m)

\* handleCreateRectangle .. handleCreateLine share one shape: create the node
\* (the host puts it on the focused page), apply the paints, attach it to the
\* named parent when that is a container, respond.  The rectangle and ellipse
\* handlers name the paint that failed; the others report the host's error.
Containers == ContainerTypes \cup {"PAGE"}

CreateDirect(c, m, type, prefix) ==
  LET node == c.h.nextId
      h1 == CreateNode(c.h, type, c.cur)
      h2 == IF m.p.ref # NULL /\ GetNodeById(h1, m.p.ref) # NULL
               /\ h1.ntype[m.p.ref] \in Containers
            THEN AppendChild(h1, m.p.ref, node) ELSE h1
  IN IF m.p.bad
     THEN Done(SendResponse([c EXCEPT !.h = h1],
                 Response(m.type, FALSE, FALSE, TRUE, prefix \o <<"host error">>, m.id)))
     ELSE Created(SendResponse([c EXCEPT !.h = h2],
                    Response(m.type, TRUE, TRUE, FALSE, <<>>, m.id)), node)

HandleCreateRectangle(c, m) == CreateDirect(c, m, "RECTANGLE", <<"Failed to apply fills: ">>)
HandleCreateEllipse(c, m)   == CreateDirect(c, m, "ELLIPSE", <<"Failed to apply fills: ">>)
HandleCreateFrame(c, m)     == CreateDirect(c, m, "FRAME", <<>>)
HandleCreateComponent(c, m) == CreateDirect(c, m, "COMPONENT", <<>>)
HandleCreateLine(c, m)      == CreateDirect(c, m, "LINE", <<>>)

HandleCreateText(c, m) ==
  Await([c EXCEPT !.h = CreateNode(c.h, "TEXT", c.cur)], "text.font",
        [NoLoc EXCEPT !.main = c.h.nextId])

\* handleCreateText after a loadFontAsync settles
ResumeCreateText(c, m, pc, loc, ok) ==
  LET text == loc.main
      gone == GetNodeById(c.h, text) = NULL
      failure == Done(SendResponse(c, Response(m.type, FALSE, FALSE, TRUE,
                                               <<"host error">>, m.id)))
      success == Created(SendResponse(c, Response(m.type, TRUE, TRUE, FALSE, <<>>, m.id)),
                         text)
      attached == IF m.p.ref # NULL /\ GetNodeById(c.h, m.p.ref) # NULL
                     /\ c.h.ntype[m.p.ref] \in Containers
                  THEN [c EXCEPT !.h = AppendChild(c.h, m.p.ref, text)] ELSE c
  IN IF pc = "text.font" /\ (~ok \/ gone)
     THEN Await(c, "text.fallback", loc)
     ELSE IF pc \in {"text.font", "text.fallback"}
     THEN IF ~ok \/ gone \/ m.p.bad THEN failure
          ELSE IF m.p.styled
          THEN Await(attached, "text.style", loc)
          ELSE Created(SendResponse(attached,
                         Response(m.type, TRUE, TRUE, FALSE, <<>>, m.id)), text)
     ELSE IF pc = "text.style" /\ ~ok
     THEN Await(c, "text.style.fallback", loc)
     ELSE IF gone THEN failure ELSE success

\* ------------------------------------------------------- ADD_ELEMENT
\* The host refuses to read or write a node that has been removed.
Alive(h, ids) == \A i \in DOMAIN ids : GetNodeById(h, ids[i]) # NULL

\* parentFrame when the parent is a container, else parentPage
Target(loc) == IF loc.pf # NULL THEN loc.pf ELSE loc.pp

\* figma.group(nodes, parent)
Group(h, nodes, parent) ==
  LET group == h.nextId
      h1 == CreateNode(h, "GROUP", parent)
  IN [h1 EXCEPT !.nparent = [i \in Ids |->
        IF \E j \in DOMAIN nodes : nodes[j] = i THEN group ELSE h1.nparent[i]]]

AddElementError(c) ==
  Return(c, CreateErrorResponse(<<"Error adding element: ", "host error">>))

\* the tail of handleAddElement: record the node with the active wireframe,
\* read its details, return them
AddElementFinish(c, m, createdNode) ==
  LET wireframeId == c.s.awf
      c1 == IF wireframeId # NULL
            THEN [c EXCEPT !.s = AddNodeToWireframe(c.s, wireframeId, createdNode, c.t),
                           !.read = TRUE]
            ELSE c
  IN IF GetNodeById(c1.h, createdNode) = NULL
     THEN AddElementError(c1)
     ELSE Return(c1, [CreateSuccessResponse EXCEPT !.node = createdNode])

\* groups under the parent without the host looking at the parent
AddElementGroupStale(c, m, loc, nodes) ==
  AddElementFinish([c EXCEPT !.h = Group(c.h, nodes, Target(loc))], m, c.h.nextId)

AddElementGroup(c, m, loc, nodes) ==
  IF Alive(c.h, nodes) /\ GetNodeById(c.h, Target(loc)) # NULL
  THEN AddElementFinish([c EXCEPT !.h = Group(c.h, nodes, Target(loc))], m, c.h.nextId)
  ELSE AddElementError(c)

PrimitiveTypes == {"RECTANGLE", "ELLIPSE", "POLYGON", "STAR", "LINE", "VECTOR"}

AddElementUnsupportedAsShape(c, m) ==
  AddElementFinish([c EXCEPT !.h = CreateNode(c.h, "RECTANGLE", c.cur)], m, c.h.nextId)

\* the default case of the switch on the element type
AddElementUnsupported(c, m) ==
  Return(c, CreateErrorResponse(<<"Unsupported element type: ", m.p.elementType>>))

HandleAddElement(c, m) ==
  IF ~m.p.present \/ m.p.elementType = ""
  THEN Return(c, CreateErrorResponse(<<"Invalid payload for ADD_ELEMENT command">>))
  ELSE
  LET parent == IF m.p.ref # NULL THEN GetNodeById(c.h, m.p.ref) ELSE NULL
      parentPage == IF parent # NULL /\ c.h.ntype[parent] = "PAGE" THEN parent ELSE c.cur
      parentFrame == IF parent # NULL /\ c.h.ntype[parent] \in ContainerTypes
                     THEN parent ELSE NULL
      loc0 == [NoLoc EXCEPT !.pp = parentPage, !.pf = parentFrame]
      nodeType == m.p.elementType
      first == c.h.nextId
      \* the first node of the element, attached to its parent
      Made(type) == [c EXCEPT !.h = AppendChild(CreateNode(c.h, type, c.cur),
                                                Target(loc0), first)]
      \* ... and a text node created next, still on the focused page
      WithText(type) == [c EXCEPT !.h = CreateNode(Made(type).h, "TEXT", c.cur)]
  IN CASE nodeType = "TEXT" ->
            Await([c EXCEPT !.h = CreateNode(c.h, "TEXT", c.cur)], "add.text.font",
                  [loc0 EXCEPT !.main = first])
       [] nodeType \in {"BUTTON", "INPUT"} ->
            Await(WithText("RECTANGLE"), "add.button.font",
                  [loc0 EXCEPT !.main = first, !.text = first + 1])
       [] nodeType = "FRAME" ->
            IF m.p.text
            THEN Await(WithText("FRAME"), "add.frame.font",
                       [loc0 EXCEPT !.main = first, !.text = first + 1])
            ELSE AddElementFinish(Made("FRAME"), m, first)
       [] nodeType = "CARD" ->
            IF m.p.title
            THEN Await(WithText("RECTANGLE"), "add.card.title",
                       [loc0 EXCEPT !.main = first, !.text = first + 1, !.els = <<first>>])
            ELSE AddElementGroup(Made("RECTANGLE"), m, loc0, <<first>>)
       [] nodeType = "NAVBAR" ->
            Await(WithText("RECTANGLE"), "add.nav.logo",
                  [loc0 EXCEPT !.main = first, !.text = first + 1, !.els = <<first>>])
       [] nodeType \in PrimitiveTypes ->
            AddElementFinish(Made(nodeType), m, first)
       [] nodeType = "CUSTOM" ->
            IF m.p.text
            THEN Await(WithText("RECTANGLE"), "add.custom.font",
                       [loc0 EXCEPT !.main = first, !.text = first + 1])
            ELSE AddElementFinish(Made("RECTANGLE"), m, first)
       [] OTHER -> AddElementUnsupported(c, m)

\* handleAddElement after a loadFontAsync settles
ResumeAddElement(c, m, pc, loc, ok) ==
  LET target == Target(loc)
      \* the text node can be written and attached to the element's parent
      placed == ok /\ Alive(c.h, <<loc.text, target>>)
      attached == [c EXCEPT !.h = AppendChild(c.h, target, loc.text)]
  IN CASE pc = "add.text.font" ->
            IF ok /\ Alive(c.h, <<loc.main, target>>)
            THEN Await([c EXCEPT !.h = AppendChild(c.h, target, loc.main)],
                       "add.text.style", loc)
            ELSE Return(c, CreateErrorResponse(<<"Failed to load font: ", "host error">>))
       [] pc = "add.text.style" ->
            IF ~ok /\ m.p.styled
            THEN Await(c, "add.text.style.fallback", loc)
            ELSE AddElementFinish(c, m, loc.main)
       [] pc = "add.text.style.fallback" ->
            AddElementFinish(c, m, loc.main)
       [] pc = "add.button.font" ->
            AddElementGroup(IF placed THEN attached ELSE c, m, loc, <<loc.main, loc.text>>)
       [] pc = "add.frame.font" ->
            IF ok /\ Alive(c.h, <<loc.text, loc.main>>)
            THEN AddElementFinish([c EXCEPT !.h = AppendChild(c.h, loc.main, loc.text)],
                                  m, loc.main)
            ELSE AddElementFinish(c, m, loc.main)
       [] pc = "add.card.title" ->
            IF ~placed THEN AddElementGroup(c, m, loc, loc.els)
            ELSE IF GetNodeById(c.h, loc.main) = NULL
            THEN AddElementGroup(attached, m, loc, loc.els)
            ELSE IF m.p.text
            THEN Await([attached EXCEPT !.h = CreateNode(attached.h, "TEXT", c.cur)],
                       "add.card.desc",
                       [loc EXCEPT !.els = Append(@, loc.text), !.aux = c.h.nextId])
            ELSE AddElementGroup(attached, m, loc, Append(loc.els, loc.text))
       [] pc = "add.card.desc" ->
            IF ok /\ Alive(c.h, <<loc.aux, target>>)
            THEN LET c1 == [c EXCEPT !.h = AppendChild(c.h, target, loc.aux)]
                 IN IF Alive(c.h, <<loc.main, loc.text>>)
                    THEN AddElementGroup(c1, m, loc, Append(loc.els, loc.aux))
                    ELSE AddElementGroup(c1, m, loc, loc.els)
            ELSE AddElementGroup(c, m, loc, loc.els)
       [] pc = "add.nav.logo" ->
            IF ~placed THEN AddElementGroup(c, m, loc, loc.els)
            ELSE IF GetNodeById(c.h, loc.main) = NULL
            THEN AddElementGroup(attached, m, loc, loc.els)
            ELSE Await(attached, "add.nav.links", [loc EXCEPT !.els = Append(@, loc.text)])
       [] pc = "add.nav.links" ->
            IF ~ok THEN AddElementGroup(c, m, loc, loc.els)
            ELSE IF m.p.n = 0 THEN AddElementGroup(c, m, loc, loc.els)
            ELSE LET link == c.h.nextId
                     c1 == [c EXCEPT !.h = CreateNode(c.h, "TEXT", c.cur)]
                 IN IF GetNodeById(c.h, target) = NULL
                    THEN AddElementGroup(c1, m, loc, loc.els)
                    ELSE AddElementGroup([c1 EXCEPT !.h = AppendChild(c1.h, target, link)],
                                         m, loc, Append(loc.els, link))
       [] pc = "add.custom.font" ->
            IF placed /\ GetNodeById(c.h, loc.main) # NULL
            THEN AddElementGroup(attached, m, loc, <<loc.main, loc.text>>)
            ELSE AddElementFinish(IF placed THEN attached ELSE c, m, loc.main)

\* ------------------------------------------------------ the dispatcher
\* figma.ui.onmessage: the switch on msg.type
OnMessage(c, m, sel) ==
  CASE m.type = "UI_READY"         -> HandleUiReady(c, m)
    [] m.type = "CREATE_WIREFRAME" -> HandleCreateWireframe(c, m)
    [] m.type = "ADD_ELEMENT"      -> HandleAddElement(c, m)
    [] m.type = "STYLE_ELEMENT"    -> HandleStyleElement(c, m, sel)
    [] m.type = "MODIFY_ELEMENT"   -> HandleModifyElement(c, m)
    [] m.type = "ARRANGE_LAYOUT"   -> HandleArrangeLayout(c, m)
    [] m.type = "EXPORT_DESIGN"    -> HandleExportDesign(c, m, sel)
    [] m.type = "GET_SELECTION"    -> HandleGetSelection(c, m)
    [] m.type = "GET_CURRENT_PAGE" -> HandleGetCurrentPage(c, m)
    [] m.type = "CREATE_RECTANGLE" -> HandleCreateRectangle(c, m)
    [] m.type = "CREATE_ELLIPSE"   -> HandleCreateEllipse(c, m)
    [] m.type = "CREATE_TEXT"      -> HandleCreateText(c, m)
    [] m.type = "CREATE_FRAME"     -> HandleCreateFrame(c, m)
    [] m.type = "CREATE_COMPONENT" -> HandleCreateComponent(c, m)
    [] m.type = "CREATE_LINE"      -> HandleCreateLine(c, m)
    [] OTHER                       -> HandleUnknown(c, m)

\* the case labels of the switch
HandledKinds ==
  {"UI_READY", "CREATE_WIREFRAME", "ADD_ELEMENT", "STYLE_ELEMENT", "MODIFY_ELEMENT",
   "ARRANGE_LAYOUT", "EXPORT_DESIGN", "GET_SELECTION", "GET_CURRENT_PAGE",
   "CREATE_RECTANGLE", "CREATE_ELLIPSE", "CREATE_TEXT", "CREATE_FRAME",
   "CREATE_COMPONENT", "CREATE_LINE"}

\* a continuation for which a rejected font load ends ADD_ELEMENT in a failure
OnSettleFontFatal(c, task, n, ok) ==
  CASE task.m.type = "ADD_ELEMENT" ->
         IF ok THEN ResumeAddElement(c, task.m, task.pc, task.loc, ok)
         ELSE Return(c, CreateErrorResponse(<<"Failed to load font: ", "host error">>))
    [] task.m.type = "STYLE_ELEMENT" -> ResumeStyleElement(c, task.m, task.pc, task.loc, ok)
    [] task.m.type = "EXPORT_DESIGN" -> ResumeExportDesign(c, task.m, task.loc, n, ok)
    [] task.m.type = "CREATE_TEXT"   -> ResumeCreateText(c, task.m, task.pc, task.loc, ok)

\* the continuation of a suspended handler
OnSettle(c, task, n, ok) ==
  CASE task.m.type = "ADD_ELEMENT"   -> ResumeAddElement(c, task.m, task.pc, task.loc, ok)
    [] task.m.type = "STYLE_ELEMENT" -> ResumeStyleElement(c, task.m, task.pc, task.loc, ok)
    [] task.m.type = "EXPORT_DESIGN" -> ResumeExportDesign(c, task.m, task.loc, n, ok)
    [] task.m.type = "CREATE_TEXT"   -> ResumeCreateText(c, task.m, task.pc, task.loc, ok)

SettleSwallowing(m, r) ==
  IF m.type = "ADD_ELEMENT" /\ r.pc = "done" /\ r.thrown = <<>>
  THEN SendResponse(r.c, Response(m.type, r.result.success, r.result.hasData,
                                  r.result.hasError, r.result.error, m.id))
  ELSE r.c

\* What the dispatcher does once the handler has returned or thrown: the
\* ADD_ELEMENT case posts the handler's result, the catch posts the failure.
Settle(m, r) ==
  LET c1 == IF m.type = "ADD_ELEMENT" /\ r.pc = "done" /\ r.thrown = <<>>
            THEN SendResponse(r.c, Response(m.type, r.result.success, r.result.hasData,
                                            r.result.hasError, r.result.error, m.id))
            ELSE r.c
  IN IF r.thrown # <<>>
     THEN SendResponse(c1, Response(m.type, FALSE, FALSE, TRUE, r.thrown, m.id))
     ELSE c1

\* node ids a handler may still ask the host for
NodesNeeded(m) ==
  CASE m.type = "CREATE_WIREFRAME" ->
         IF ~m.p.present \/ m.p.n < 0 THEN 0 ELSE IF m.p.bad /\ m.p.n > 0 THEN 1 ELSE m.p.n
    [] m.type \in {"CREATE_RECTANGLE", "CREATE_ELLIPSE", "CREATE_TEXT", "CREATE_FRAME",
                   "CREATE_COMPONENT", "CREATE_LINE"} -> 1
    [] m.type = "ADD_ELEMENT" /\ m.p.present ->
         LET text == IF m.p.text THEN 1 ELSE 0
         IN CASE m.p.elementType \in PrimitiveTypes \cup {"TEXT"} -> 1
              [] m.p.elementType \in {"BUTTON", "INPUT"} -> 3
              [] m.p.elementType = "FRAME"  -> 1 + text
              [] m.p.elementType = "CARD"   -> 2 + (IF m.p.title THEN 1 + text ELSE 0)
              [] m.p.elementType = "NAVBAR" -> 3 + m.p.n
              [] m.p.elementType = "CUSTOM" -> 1 + 2 * text
              [] OTHER -> 0
    [] OTHER -> 0

Reserved == LET RECURSIVE Sum(_)
                Sum(S) == IF S = {} THEN 0
                          ELSE LET k == CHOOSE k \in S : TRUE
                               IN tasks[k].resv + Sum(S \ {k})
            IN Sum(DOMAIN tasks)

\* One step of one invocation: its effects on the host, the session and the
\* outbound channel become visible together.
Commit(seq, m, r, sent0, resv0) ==
  LET c == Settle(m, r)
      sent == sent0 + Cardinality({i \in DOMAIN c.posts : c.posts[i].id = m.id})
  IN /\ live' = c.h.live /\ ntype' = c.h.ntype /\ nparent' = c.h.nparent
     /\ nextId' = c.h.nextId
     /\ currentPage' = c.cur
     /\ SetSession(c.s)
     /\ now' = IF c.read THEN c.t ELSE now
     /\ posted' = c.posts
     /\ gapRet' = c.gap
     /\ touched' = c.touched
     /\ lastOp' = "onmessage"
     /\ ncalls' = ncalls
     /\ UNCHANGED callVars
     /\ IF r.pc = "done"
        THEN /\ tasks' = [k \in DOMAIN tasks \ {seq} |-> tasks[k]]
             /\ finished' = {[type |-> m.type, id |-> m.id, isResponse |-> m.isResponse,
                               pages |-> IF m.p.present THEN m.p.n ELSE -1,
                               kind |-> m.p.elementType, node |-> r.result.node,
                               ref |-> m.p.ref, exports |-> Len(m.p.sel),
                               picked |-> c.picked,
                               made |-> NodesNeeded(m) - resv0 + (c.h.nextId - nextId),
                               seq |-> seq, sent |-> sent, thrown |-> r.thrown]}
        ELSE /\ tasks' = [k \in DOMAIN tasks \cup {seq} |->
                            IF k = seq
                            THEN [m |-> m, pc |-> r.pc, loc |-> r.loc, sent |-> sent,
                                  resv |-> resv0 - (c.h.nextId - nextId)]
                            ELSE tasks[k]]
             /\ finished' = {}

\* the commands whose handlers read Date.now(), and figma.currentPage.selection
ClockKinds == {"CREATE_WIREFRAME", "ADD_ELEMENT"}
SelectionKinds == {"STYLE_ELEMENT", "EXPORT_DESIGN"}

\* A message arrives and its handler runs up to its first await; the host has
\* `room` node ids to issue.
DeliverWithin(m, room) ==
  /\ nextMsg <= MaxMsgs
  /\ nextId + Reserved + NodesNeeded(m) <= room + 1
  /\ nextMsg' = nextMsg + 1
  /\ \E t \in IF m.type \in ClockKinds THEN Clock ELSE {now},
          sel \in IF m.type \in SelectionKinds THEN SceneNodes \cup {NULL} ELSE {NULL} :
       Commit(nextMsg, m, OnMessage(Ctx(t), m, sel), 0, NodesNeeded(m))

Deliver(m) == DeliverWithin(m, MaxNodes)

\* A promise a handler awaits settles and the handler runs to its next await
Resume ==
  \E seq \in DOMAIN tasks, ok \in BOOLEAN :
    \E n \in IF tasks[seq].loc.pend = {} THEN {NULL} ELSE tasks[seq].loc.pend,
       t \in IF tasks[seq].m.type \in ClockKinds THEN Clock ELSE {now} :
      /\ nextMsg' = nextMsg
      /\ Commit(seq, tasks[seq].m, OnSettle(Ctx(t), tasks[seq], n, ok),
                tasks[seq].sent, tasks[seq].resv)

\* ------------------------------------------------- inbound messages
\* Every id the host has issued so far, resolvable or not, and "no id".
IssuedIds == 1..(nextId - 1)
Refs == IssuedIds \cup {NULL}

UnknownKinds == {"CREATE_POLYGON", "PING"}

Fresh(type, p) == Msg(type, nextMsg, FALSE, p)

CreateWireframePayloads ==
  {NoPayload, [Payload EXCEPT !.n = -1], [Payload EXCEPT !.bad = TRUE]}
  \cup {[Payload EXCEPT !.n = n, !.name = nm] : n \in 0..MaxPageNames, nm \in WfNames}

\* the styles are empty, or carry a name, a text content and a font weight
StylePayloads ==
  {NoPayload} \cup {[Payload EXCEPT !.ref = r, !.title = b, !.text = b, !.styled = b] :
                      r \in Refs, b \in BOOLEAN}

RefPayloads == {NoPayload} \cup {[Payload EXCEPT !.ref = r] : r \in Refs}

ExportPayloads ==
  {NoPayload, Payload}
  \cup {[Payload EXCEPT !.sel = <<a>>] : a \in IssuedIds}
  \cup {[Payload EXCEPT !.sel = <<a, b>>] : a \in SceneNodes, b \in LivePages}

CreatePayloads ==
  {[Payload EXCEPT !.bad = TRUE]} \cup {[Payload EXCEPT !.ref = r] : r \in Refs}

\* NAVBAR: n is the length of `links`, kept to 0 or 1 here (absent, the code
\* takes four)
AddElementPayloads ==
  {NoPayload, Payload, [Payload EXCEPT !.elementType = "WIDGET"]}
  \cup {[Payload EXCEPT !.elementType = k, !.ref = r] :
          k \in {"RECTANGLE", "LINE", "BUTTON", "INPUT"}, r \in Refs}
  \cup {[Payload EXCEPT !.elementType = k, !.ref = r, !.text = b] :
          k \in {"FRAME", "CUSTOM"}, r \in Refs, b \in BOOLEAN}
  \cup {[Payload EXCEPT !.elementType = "TEXT", !.ref = r, !.styled = b] :
          r \in Refs, b \in BOOLEAN}
  \cup {[Payload EXCEPT !.elementType = "CARD", !.ref = r, !.title = b, !.text = b2] :
          r \in Refs, b \in BOOLEAN, b2 \in BOOLEAN}
  \cup {[Payload EXCEPT !.elementType = "NAVBAR", !.ref = r, !.n = n] :
          r \in Refs, n \in 0..1}

CreateTextPayloads ==
  CreatePayloads \cup {[Payload EXCEPT !.styled = TRUE]}

\* The messages the UI can send next: one of every command kind with each of
\* its payloads, a kind the dispatcher does not know, or a message the plugin
\* has just posted, handed back with its type, id and marker and no payload.
Inbound ==
  {Fresh(k, NoPayload) : k \in {"UI_READY", "GET_SELECTION", "GET_CURRENT_PAGE"} \cup UnknownKinds}
  \cup {Fresh("CREATE_WIREFRAME", p) : p \in CreateWireframePayloads}
  \cup {Fresh("ADD_ELEMENT", p) : p \in AddElementPayloads}
  \cup {Fresh("STYLE_ELEMENT", p) : p \in StylePayloads}
  \cup {Fresh(k, p) : k \in {"MODIFY_ELEMENT", "ARRANGE_LAYOUT"}, p \in RefPayloads}
  \cup {Fresh("EXPORT_DESIGN", p) : p \in ExportPayloads}
  \cup {Fresh(k, p) : k \in {"CREATE_RECTANGLE", "CREATE_ELLIPSE", "CREATE_FRAME",
                             "CREATE_COMPONENT", "CREATE_LINE"}, p \in CreatePayloads}
  \cup {Fresh("CREATE_TEXT", p) : p \in CreateTextPayloads}
  \cup {Msg(posted[i].type, posted[i].id, posted[i].isResponse, NoPayload) :
          i \in DOMAIN posted}

\* figma.ui.onmessage is called with a message
Receive == nextMsg <= MaxMsgs /\ \E m \in Inbound : Deliver(m)

RecvUiReady == Deliver(Fresh("UI_READY", NoPayload))

\* figma.on('run'): the host emits the event once, when the plugin is
\* launched; a menu command is acknowledged with a notification.
MenuCommands == {"create-wireframe", "about"}

CommandReceived ==
  [type |-> "COMMAND_RECEIVED", success |-> TRUE, hasData |-> TRUE,
   hasError |-> FALSE, error |-> <<>>, id |-> NULL, isResponse |-> FALSE]

OnRun ==
  \E command \in MenuCommands :
    /\ lastOp = "init"
    /\ posted' = IF command = "about" THEN <<>> ELSE <<CommandReceived>>
    /\ finished' = {} /\ gapRet' = {} /\ touched' = {}
    /\ lastOp' = "environment" /\ ncalls' = ncalls
    /\ UNCHANGED <<hostVars, sessionVars, now, nextMsg, tasks, callVars>>

Next ==
  \/ Receive
  \/ Resume
  \/ OnRun
  \/ UserDeletePage
  \/ UserSwitchPage
  \/ UserDeleteNode

Spec == Init /\ [][Next]_vars

\* ADD_ELEMENT on its own: the UI sends nothing but ADD_ELEMENT, and the host
\* has ids enough for a composite element inside a frame built before it.
ReceiveAddElement ==
  /\ nextMsg <= MaxMsgs
  /\ \E p \in AddElementPayloads :
       DeliverWithin(Fresh("ADD_ELEMENT", p), MaxNodes + MaxBuild)

SpecBuild ==
  Init /\ [][ReceiveAddElement \/ Resume \/ UserDeletePage \/ UserDeleteNode]_vars

\* ---------------------------------------------------- numbers and text
\* A JavaScript number, kept exact: n/d in lowest terms with d > 0; NaN is
\* 0/0.  NaN spreads through the arithmetic and fails every comparison.
NaN == [n |-> 0, d |-> 0]

Q(n, d) ==
  LET RECURSIVE Gcd(_, _)
      Gcd(a, b) == IF b = 0 THEN a ELSE Gcd(b, a % b)
      Abs(x) == IF x < 0 THEN -x ELSE x
      g == Gcd(Abs(n), Abs(d))
  IN IF d = 0 THEN NaN
     ELSE IF d < 0 THEN [n |-> (-n) \div g, d |-> (-d) \div g]
     ELSE [n |-> n \div g, d |-> d \div g]

QAdd(a, b) == Q(a.n * b.d + b.n * a.d, a.d * b.d)
QSub(a, b) == Q(a.n * b.d - b.n * a.d, a.d * b.d)
QMul(a, b) == Q(a.n * b.n, a.d * b.d)
QLt(a, b)  == a.d # 0 /\ b.d # 0 /\ a.n * b.d < b.n * a.d

\* A string is the sequence of its characters.
StartsWith(s, prefix) ==
  Len(s) >= Len(prefix) /\ SubSeq(s, 1, Len(prefix)) = prefix

\* String.prototype.trim
Trim(s) ==
  LET inner == {i \in DOMAIN s : s[i] # " "}
      Min(S) == CHOOSE i \in S : \A j \in S : i <= j
      Max(S) == CHOOSE i \in S : \A j \in S : i >= j
  IN IF inner = {} THEN <<>> ELSE SubSeq(s, Min(inner), Max(inner))

\* String.prototype.toLowerCase
ToLowerCase(s) ==
  LET lower == ("A" :> "a" @@ "B" :> "b" @@ "C" :> "c" @@ "D" :> "d" @@ "E" :> "e" @@ "F" :> "f" @@ "G" :> "g" @@ "H" :> "h" @@ "I" :> "i" @@ "J" :> "j" @@ "K" :> "k" @@ "L" :> "l" @@ "M" :> "m" @@ "N" :> "n" @@ "O" :> "o" @@ "P" :> "p" @@ "Q" :> "q" @@ "R" :> "r" @@ "S" :> "s" @@ "T" :> "t" @@ "U" :> "u" @@ "V" :> "v" @@ "W" :> "w" @@ "X" :> "x" @@ "Y" :> "y" @@ "Z" :> "z")
  IN [i \in DOMAIN s |-> IF s[i] \in DOMAIN lower THEN lower[s[i]] ELSE s[i]]

\* parseInt(s, radix): leading blanks, a sign, for radix 16 a 0x prefix, then
\* the longest run of digits; NaN when that run is empty.
ParseInt(s, radix) ==
  LET value == ("0" :> 0 @@ "1" :> 1 @@ "2" :> 2 @@ "3" :> 3 @@ "4" :> 4 @@ "5" :> 5 @@ "6" :> 6 @@ "7" :> 7 @@ "8" :> 8 @@ "9" :> 9 @@ "a" :> 10 @@ "b" :> 11 @@ "c" :> 12 @@ "d" :> 13 @@ "e" :> 14 @@ "f" :> 15 @@ "A" :> 10 @@ "B" :> 11 @@ "C" :> 12 @@ "D" :> 13 @@ "E" :> 14 @@ "F" :> 15 )
      IsDigit(ch) == ch \in DOMAIN value /\ value[ch] < radix
      RECURSIVE Blanks(_)
      Blanks(i) == IF i <= Len(s) /\ s[i] = " " THEN Blanks(i + 1) ELSE i
      b == Blanks(1)
      signed == b <= Len(s) /\ s[b] \in {"-", "+"}
      negative == signed /\ s[b] = "-"
      d0 == IF signed THEN b + 1 ELSE b
      d1 == IF radix = 16 /\ d0 + 1 <= Len(s) /\ s[d0] = "0" /\ s[d0 + 1] \in {"x", "X"}
            THEN d0 + 2 ELSE d0
      RECURSIVE Run(_, _)
      Run(i, acc) == IF i <= Len(s) /\ IsDigit(s[i])
                     THEN Run(i + 1, acc * radix + value[s[i]])
                     ELSE [end |-> i, v |-> acc]
      r == Run(d1, 0)
  IN IF r.end = d1 THEN NaN
     ELSE Q(IF negative THEN -r.v ELSE r.v, 1)

\* parseFloat(s) of a decimal literal: digits, then a point and digits; NaN
\* when there is no digit at all.
ParseFloat(s) ==
  LET value == ("0" :> 0 @@ "1" :> 1 @@ "2" :> 2 @@ "3" :> 3 @@ "4" :> 4 @@ "5" :> 5 @@ "6" :> 6 @@ "7" :> 7 @@ "8" :> 8 @@ "9" :> 9 @@ "a" :> 10 @@ "b" :> 11 @@ "c" :> 12 @@ "d" :> 13 @@ "e" :> 14 @@ "f" :> 15 @@ "A" :> 10 @@ "B" :> 11 @@ "C" :> 12 @@ "D" :> 13 @@ "E" :> 14 @@ "F" :> 15 )
      IsDigit(ch) == ch \in DOMAIN value /\ value[ch] < 10
      RECURSIVE Run(_, _, _)
      Run(i, acc, k) == IF i <= Len(s) /\ IsDigit(s[i])
                        THEN Run(i + 1, acc * 10 + value[s[i]], k * 10)
                        ELSE [end |-> i, v |-> acc, scale |-> k]
      whole == Run(1, 0, 1)
      pointed == whole.end <= Len(s) /\ s[whole.end] = "."
      part == IF pointed THEN Run(whole.end + 1, whole.v, 1) ELSE [whole EXCEPT !.scale = 1]
  IN IF whole.end = 1 /\ (~pointed \/ part.end = whole.end + 1) THEN NaN
     ELSE Q(part.v, part.scale)

\* colorStr.match(/[\d.]+/g): the maximal runs of digits and points, in
\* order (no run: null, which the callers treat as too few values)
MatchNumbers(s) ==
  LET Numeric(ch) == ch \in {"0", "1", "2", "3", "4", "5", "6", "7", "8", "9", "."}
      RECURSIVE Scan(_, _, _)
      Scan(i, cur, found) ==
        IF i > Len(s)
        THEN IF cur = <<>> THEN found ELSE Append(found, cur)
        ELSE IF Numeric(s[i]) THEN Scan(i + 1, Append(cur, s[i]), found)
        ELSE Scan(i + 1, <<>>, IF cur = <<>> THEN found ELSE Append(found, cur))
  IN Scan(1, <<>>, <<>>)

\* ----------------------------------------------------- enhancedParseColor
\* What the function returns: a colour, or a value that is no colour at all
\* (a property the lookup `name in colorMap` finds on Object.prototype).
Rgba(r, g, b, a) == [kind |-> "color", r |-> r, g |-> g, b |-> b, a |-> a]
NotAColor == [kind |-> "other", r |-> NaN, g |-> NaN, b |-> NaN, a |-> NaN]
Black == Rgba(Q(0, 1), Q(0, 1), Q(0, 1), Q(1, 1))

ColorMap ==
     <<"t", "r", "a", "n", "s", "p", "a", "r", "e", "n", "t">> :> Rgba(Q(0, 1), Q(0, 1), Q(0, 1), Q(0, 1))
  @@ <<"r", "e", "d">> :> Rgba(Q(1, 1), Q(0, 1), Q(0, 1), Q(1, 1))
  @@ <<"g", "r", "e", "e", "n">> :> Rgba(Q(0, 1), Q(4, 5), Q(0, 1), Q(1, 1))
  @@ <<"b", "l", "u", "e">> :> Rgba(Q(0, 1), Q(0, 1), Q(1, 1), Q(1, 1))
  @@ <<"b", "l", "a", "c", "k">> :> Rgba(Q(0, 1), Q(0, 1), Q(0, 1), Q(1, 1))
  @@ <<"w", "h", "i", "t", "e">> :> Rgba(Q(1, 1), Q(1, 1), Q(1, 1), Q(1, 1))
  @@ <<"g", "r", "a", "y">> :> Rgba(Q(1, 2), Q(1, 2), Q(1, 2), Q(1, 1))
  @@ <<"g", "r", "e", "y">> :> Rgba(Q(1, 2), Q(1, 2), Q(1, 2), Q(1, 1))
  @@ <<"y", "e", "l", "l", "o", "w">> :> Rgba(Q(1, 1), Q(1, 1), Q(0, 1), Q(1, 1))
  @@ <<"p", "u", "r", "p", "l", "e">> :> Rgba(Q(1, 2), Q(0, 1), Q(1, 2), Q(1, 1))
  @@ <<"o", "r", "a", "n", "g", "e">> :> Rgba(Q(1, 1), Q(13, 20), Q(0, 1), Q(1, 1))
  @@ <<"p", "i", "n", "k">> :> Rgba(Q(1, 1), Q(3, 4), Q(4, 5), Q(1, 1))
  @@ <<"p", "r", "i", "m", "a", "r", "y">> :> Rgba(Q(3, 25), Q(47, 100), Q(71, 100), Q(1, 1))
  @@ <<"s", "e", "c", "o", "n", "d", "a", "r", "y">> :> Rgba(Q(91, 100), Q(3, 10), Q(6, 25), Q(1, 1))
  @@ <<"s", "u", "c", "c", "e", "s", "s">> :> Rgba(Q(3, 10), Q(69, 100), Q(31, 100), Q(1, 1))
  @@ <<"w", "a", "r", "n", "i", "n", "g">> :> Rgba(Q(1, 1), Q(19, 25), Q(3, 100), Q(1, 1))
  @@ <<"e", "r", "r", "o", "r">> :> Rgba(Q(24, 25), Q(13, 50), Q(21, 100), Q(1, 1))
  @@ <<"i", "n", "f", "o">> :> Rgba(Q(13, 100), Q(59, 100), Q(19, 20), Q(1, 1))

\* the lower-case property names every object inherits
InheritedNames ==
  {<<"c", "o", "n", "s", "t", "r", "u", "c", "t", "o", "r">>,
   <<"_", "_", "p", "r", "o", "t", "o", "_", "_">>}

\* the '#' branch: the colour, or the failure that sends the string on to
\* the next branches
ParseHex(colorStr) ==
  LET hex0 == SubSeq(colorStr, 2, Len(colorStr))
      hex == IF Len(hex0) = 3
             THEN <<hex0[1], hex0[1], hex0[2], hex0[2], hex0[3], hex0[3]>> ELSE hex0
      Pair(i) == QMul(ParseInt(SubSeq(hex, i, i + 1), 16), Q(1, 255))
      Twice(i) == QMul(ParseInt(<<hex[i], hex[i]>>, 16), Q(1, 255))
  IN IF Len(hex) = 8 THEN Rgba(Pair(1), Pair(3), Pair(5), Pair(7))
     ELSE IF Len(hex) = 6 THEN Rgba(Pair(1), Pair(3), Pair(5), Q(1, 1))
     ELSE IF Len(hex) = 4 THEN Rgba(Twice(1), Twice(2), Twice(3), Twice(4))
     ELSE NotAColor

\* the 'rgb' branch: values is the result of MatchNumbers, three at least
ParseRgb(values) ==
  Rgba(QMul(ParseInt(values[1], 10), Q(1, 255)),
       QMul(ParseInt(values[2], 10), Q(1, 255)),
       QMul(ParseInt(values[3], 10), Q(1, 255)),
       IF Len(values) >= 4 THEN ParseFloat(values[4]) ELSE Q(1, 1))

\* the 'hsl' branch
ParseHsl(values) ==
  LET h == QMul(ParseInt(values[1], 10), Q(1, 360))
      s == QMul(ParseInt(values[2], 10), Q(1, 100))
      l == QMul(ParseInt(values[3], 10), Q(1, 100))
      a == IF Len(values) >= 4 THEN ParseFloat(values[4]) ELSE Q(1, 1)
      q == IF QLt(l, Q(1, 2)) THEN QMul(l, QAdd(Q(1, 1), s))
           ELSE QSub(QAdd(l, s), QMul(l, s))
      p == QSub(QMul(Q(2, 1), l), q)
      hue2rgb(t0) ==
        LET t1 == IF QLt(t0, Q(0, 1)) THEN QAdd(t0, Q(1, 1)) ELSE t0
            t  == IF QLt(Q(1, 1), t1) THEN QSub(t1, Q(1, 1)) ELSE t1
        IN IF QLt(t, Q(1, 6)) THEN QAdd(p, QMul(QMul(QSub(q, p), Q(6, 1)), t))
           ELSE IF QLt(t, Q(1, 2)) THEN q
           ELSE IF QLt(t, Q(2, 3))
           THEN QAdd(p, QMul(QMul(QSub(q, p), QSub(Q(2, 3), t)), Q(6, 1)))
           ELSE p
  IN IF s = Q(0, 1) THEN Rgba(l, l, l, a)
     ELSE Rgba(hue2rgb(QAdd(h, Q(1, 3))), hue2rgb(h), hue2rgb(QSub(h, Q(1, 3))), a)

\* An argument is undefined, a string, or an object {r, g, b} ("rgb") or
\* {r, g, b, a} ("rgba"); brandColors is the set of the entries [key, value]
\* of the brand palette (absent or without entries: the empty set).
ColorArg(kind, str, obj) == [kind |-> kind, str |-> str, obj |-> obj]

RECURSIVE EnhancedParseColor(_, _)
EnhancedParseColor(colorInput, brandColors) ==
  IF colorInput.kind = "undefined" \/ (colorInput.kind = "string" /\ colorInput.str = <<>>)
  THEN Black
  ELSE IF colorInput.kind # "string"
  THEN Rgba(colorInput.obj.r, colorInput.obj.g, colorInput.obj.b,
            IF colorInput.kind = "rgba" THEN colorInput.obj.a ELSE Q(1, 1))
  ELSE
  LET colorStr == Trim(colorInput.str)
      brand == <<"b", "r", "a", "n", "d", ":">>
      referenced == brandColors # {}
                    /\ (StartsWith(colorStr, brand) \/ StartsWith(colorStr, <<"#">>))
      colorKey == IF StartsWith(colorStr, brand)
                  THEN SubSeq(colorStr, 7, Len(colorStr))
                  ELSE SubSeq(colorStr, 2, Len(colorStr))
      entries == {e \in brandColors : e.key = colorKey /\ e.value # <<>>}
      hexed == IF StartsWith(colorStr, <<"#">>) THEN ParseHex(colorStr) ELSE NotAColor
      values == MatchNumbers(colorStr)
      lowerColorStr == ToLowerCase(colorStr)
  IN IF referenced /\ entries # {}
     THEN EnhancedParseColor(ColorArg("string", (CHOOSE e \in entries : TRUE).value, Black), {})
     ELSE IF hexed.kind = "color" THEN hexed
     ELSE IF StartsWith(colorStr, <<"r", "g", "b">>) /\ Len(values) >= 3
     THEN ParseRgb(values)
     ELSE IF StartsWith(colorStr, <<"h", "s", "l">>) /\ Len(values) >= 3
     THEN ParseHsl(values)
     ELSE IF lowerColorStr \in DOMAIN ColorMap THEN ColorMap[lowerColorStr]
     ELSE IF lowerColorStr \in InheritedNames THEN NotAColor
     ELSE Black

\* ------------------------------------------------ one call, on its own
\* The rest of the plugin stands still while a function is called alone.
Aside == UNCHANGED <<hostVars, sessionVars, dispVars, now, gapRet, touched, lastOp, ncalls>>

\* The plugin has started; the call is one of `calls` and has computed
\* nothing yet.
CallInit(calls, nothing) == Started /\ arg \in calls /\ out = nothing

\* The calls of enhancedParseColor that are tried: no argument, the empty
\* string, objects, '#' strings, rgb/rgba/hsl/hsla strings, names, and
\* references into a brand palette.
ColorCalls ==
  LET HexAlphabet == {"0", "8", "f", "F", "g", "-"}
      HexBodies == UNION {[1..k -> HexAlphabet] : k \in 0..MaxHexLen}
      HexStrings ==
        {<<"#">> \o h : h \in HexBodies}
        \cup {<<"#">> \o h \o h : h \in {b \in HexBodies : Len(b) >= 3}}
        \cup {<<" ", "#">> \o h \o <<" ">> : h \in {b \in HexBodies : Len(b) = 3}}
      Numerals == {<<"0">>, <<"5", "0">>, <<"2", "5", "5">>, <<"3", "0", "0">>,
                   <<"0", ".", "5">>, <<".">>}
      FunctionNames == {<<"r", "g", "b">>, <<"r", "g", "b", "a">>, <<"h", "s", "l">>,
                        <<"h", "s", "l", "a">>, <<"R", "G", "B">>}
      RECURSIVE Join(_)
      Join(vs) == IF Len(vs) = 0 THEN <<>>
                  ELSE IF Len(vs) = 1 THEN vs[1]
                  ELSE vs[1] \o <<",", " ">> \o Join(Tail(vs))
      FunctionStrings ==
        {f \o <<"(">> \o Join(vs) \o <<")">> :
           f \in FunctionNames, vs \in UNION {[1..k -> Numerals] : k \in 0..MaxValues}}
      NameStrings ==
        DOMAIN ColorMap \cup InheritedNames
        \cup {<<"R", "e", "d">>, <<" ", "r", "e", "d", " ">>, <<"t", "e", "a", "l">>,
              <<"b", "r", "a", "n", "d", ":", "m", "a", "i", "n">>,
              <<"#", "m", "a", "i", "n">>, <<"#", "n", "o", "n", "e">>,
              <<"b", "r", "a", "n", "d", ":", "l", "o", "o", "p">>,
              <<"b", "r", "a", "n", "d", ":", "s", "e", "l", "f">>}
      Levels == {Q(0, 1), Q(1, 2), Q(1, 1), Q(255, 1)}
      Objects ==
        {ColorArg(kind, <<>>, Rgba(r, g, b, a)) :
           kind \in {"rgb", "rgba"}, r \in Levels, g \in Levels,
           b \in {Q(0, 1), Q(1, 1)}, a \in {Q(0, 1), Q(1, 1)}}
      Palette ==
        {[key |-> <<"m", "a", "i", "n">>, value |-> <<"#", "f", "f", "0", "0", "0", "0">>],
         [key |-> <<"n", "o", "n", "e">>, value |-> <<>>],
         [key |-> <<"l", "o", "o", "p">>,
          value |-> <<"b", "r", "a", "n", "d", ":", "m", "a", "i", "n">>],
         [key |-> <<"s", "e", "l", "f">>,
          value |-> <<"b", "r", "a", "n", "d", ":", "s", "e", "l", "f">>]}
      Str(x) == ColorArg("string", x, Black)
  IN {[color |-> c, brand |-> {}] :
        c \in {ColorArg("undefined", <<>>, Black), Str(<<>>)} \cup Objects
              \cup {Str(x) : x \in HexStrings \cup FunctionStrings \cup NameStrings}}
     \cup {[color |-> Str(x), brand |-> Palette] : x \in NameStrings}

CallEnhancedParseColor ==
  /\ ~out.done
  /\ out' = [done |-> TRUE, color |-> EnhancedParseColor(arg.color, arg.brand)]
  /\ UNCHANGED arg
  /\ Aside

SpecColor ==
  /\ CallInit(ColorCalls, [done |-> FALSE, color |-> Black])
  /\ [][CallEnhancedParseColor]_vars

\* ------------------------------------------------------- parseColor
\* The parser of the STYLE_ELEMENT styles: a colour of three channels.
Rgb(r, g, b) == [kind |-> "color", r |-> r, g |-> g, b |-> b]

LegacyColorMap ==
     <<"r", "e", "d">> :> Rgb(Q(1, 1), Q(0, 1), Q(0, 1))
  @@ <<"g", "r", "e", "e", "n">> :> Rgb(Q(0, 1), Q(1, 1), Q(0, 1))
  @@ <<"b", "l", "u", "e">> :> Rgb(Q(0, 1), Q(0, 1), Q(1, 1))
  @@ <<"b", "l", "a", "c", "k">> :> Rgb(Q(0, 1), Q(0, 1), Q(0, 1))
  @@ <<"w", "h", "i", "t", "e">> :> Rgb(Q(1, 1), Q(1, 1), Q(1, 1))
  @@ <<"g", "r", "a", "y">> :> Rgb(Q(1, 2), Q(1, 2), Q(1, 2))
  @@ <<"y", "e", "l", "l", "o", "w">> :> Rgb(Q(1, 1), Q(1, 1), Q(0, 1))
  @@ <<"p", "u", "r", "p", "l", "e">> :> Rgb(Q(1, 2), Q(0, 1), Q(1, 2))
  @@ <<"o", "r", "a", "n", "g", "e">> :> Rgb(Q(1, 1), Q(13, 20), Q(0, 1))
  @@ <<"p", "i", "n", "k">> :> Rgb(Q(1, 1), Q(3, 4), Q(4, 5))

ParseColor(colorStr) ==
  LET defaultColor == Rgb(Q(0, 1), Q(0, 1), Q(0, 1))
      hex0 == SubSeq(colorStr, 2, Len(colorStr))
      hex == IF Len(hex0) = 3
             THEN <<hex0[1], hex0[1], hex0[2], hex0[2], hex0[3], hex0[3]>> ELSE hex0
      Pair(i) == QMul(ParseInt(SubSeq(hex, i, i + 1), 16), Q(1, 255))
      \* colorStr.match(/\d+/g): the maximal runs of digits
      RECURSIVE Scan(_, _, _)
      Scan(i, cur, found) ==
        IF i > Len(colorStr)
        THEN IF cur = <<>> THEN found ELSE Append(found, cur)
        ELSE IF colorStr[i] \in {"0", "1", "2", "3", "4", "5", "6", "7", "8", "9"}
        THEN Scan(i + 1, Append(cur, colorStr[i]), found)
        ELSE Scan(i + 1, <<>>, IF cur = <<>> THEN found ELSE Append(found, cur))
      values == Scan(1, <<>>, <<>>)
      Channel(i) == QMul(ParseInt(values[i], 10), Q(1, 255))
      lowerColorStr == ToLowerCase(colorStr)
  IN IF StartsWith(colorStr, <<"#">>) /\ Len(hex) = 6
     THEN Rgb(Pair(1), Pair(3), Pair(5))
     ELSE IF StartsWith(colorStr, <<"r", "g", "b">>) /\ Len(values) >= 3
     THEN Rgb(Channel(1), Channel(2), Channel(3))
     ELSE IF lowerColorStr \in DOMAIN LegacyColorMap THEN LegacyColorMap[lowerColorStr]
     ELSE IF lowerColorStr \in InheritedNames
     THEN [kind |-> "other", r |-> NaN, g |-> NaN, b |-> NaN]
     ELSE defaultColor

\* The colour strings given to both parsers: the strings of ColorCalls, with
\* no brand palette.
ParserCalls ==
  {call.color.str : call \in {c \in ColorCalls : c.color.kind = "string" /\ c.brand = {}}}
  \ {<<>>}

\* the same string as a STYLE_ELEMENT fill and as an ADD_ELEMENT fill
CallBothParsers ==
  /\ ~out.done
  /\ out' = [done |-> TRUE, styled |-> ParseColor(arg),
             added |-> EnhancedParseColor(ColorArg("string", arg, Black), {})]
  /\ UNCHANGED arg
  /\ Aside

SpecParsers ==
  /\ CallInit(ParserCalls, [done |-> FALSE, styled |-> Rgb(Q(0, 1), Q(0, 1), Q(0, 1)),
                            added |-> Black])
  /\ [][CallBothParsers]_vars

\* ------------------------------------------- handleAddElement: position
\* An optional number of a payload: absent, or the integer v.
Absent == [some |-> FALSE, v |-> 0]
Some(v) == [some |-> TRUE, v |-> v]

\* The x and y handleAddElement hands to the element in enrichedStyles.
\* position holds the optional x, y, width and height; layoutPosition is the
\* keyword ("" when absent); parentFrame tells whether the parent is a
\* container, of the size `parent`; viewport is figma.viewport.bounds.
AddElementPosition(position, layoutPosition, parentFrame, parent, viewport) ==
  LET Or(opt, default) == IF opt.some /\ opt.v # 0 THEN opt.v ELSE default
      x0 == IF position.x.some THEN position.x.v ELSE 0
      y0 == IF position.y.some THEN position.y.v ELSE 0
      parentWidth == IF parentFrame THEN parent.width ELSE viewport.width
      parentHeight == IF parentFrame THEN parent.height ELSE viewport.height
      Half(k) == Q(k, 2)
      At(x, y) == [x |-> x, y |-> y]
  IN CASE layoutPosition = "top" ->
            At(Half(parentWidth - Or(position.width, 100)), Q(0, 1))
       [] layoutPosition = "bottom" ->
            At(Half(parentWidth - Or(position.width, 100)),
               Q(parentHeight - Or(position.height, 50), 1))
       [] layoutPosition = "left" ->
            At(Q(0, 1), Half(parentHeight - Or(position.height, 100)))
       [] layoutPosition = "right" ->
            At(Q(parentWidth - Or(position.width, 50), 1),
               Half(parentHeight - Or(position.height, 100)))
       [] layoutPosition = "center" ->
            At(Half(parentWidth - Or(position.width, 100)),
               Half(parentHeight - Or(position.height, 100)))
       [] OTHER -> At(Q(x0, 1), Q(y0, 1))

\* The payloads tried: every combination of absent, zero and non-zero
\* coordinates and sizes, every keyword, one that is none of them, and none.
PositionCalls ==
  LET Coordinates == {Absent, Some(0), Some(10), Some(-20)}
      Sizes == {Absent, Some(0), Some(80)}
  IN [position : [x : Coordinates, y : Coordinates, width : Sizes, height : Sizes],
      layoutPosition : {"", "top", "bottom", "left", "right", "center", "middle"},
      parentFrame : BOOLEAN]

CallAddElementPosition ==
  /\ ~out.done
  /\ out' = [done |-> TRUE,
             at |-> AddElementPosition(arg.position, arg.layoutPosition, arg.parentFrame,
                                       [width |-> 200, height |-> 120],
                                       [width |-> 800, height |-> 600])]
  /\ UNCHANGED arg
  /\ Aside

SpecPosition ==
  /\ CallInit(PositionCalls, [done |-> FALSE, at |-> [x |-> NaN, y |-> NaN]])
  /\ [][CallAddElementPosition]_vars

\* ----------------------------------------- handleAddElement: BUTTON case
\* A box is the x, y, width and height of a node, as numbers.
\* text.x = button.x + (button.width - text.width) / 2, and y alike
CenterTextAtLeft(button, text) ==
  [text EXCEPT !.x = button.x, !.y = button.y]

CenterText(button, text) ==
  [text EXCEPT !.x = QAdd(button.x, QMul(QSub(button.width, text.width), Q(1, 2))),
               !.y = QAdd(button.y, QMul(QSub(button.height, text.height), Q(1, 2)))]

\* The position and size applyExtendedStyles gives a node: x and y first,
\* then resize, which the host refuses below 0.01; the refusal is swallowed
\* and leaves the position set.
ApplyExtendedGeometry(box, at, position) ==
  LET moved == [box EXCEPT !.x = at.x, !.y = at.y]
      width == IF position.width.some THEN Q(position.width.v, 1) ELSE box.width
      height == IF position.height.some THEN Q(position.height.v, 1) ELSE box.height
  IN IF QLt(Q(0, 1), width) /\ QLt(Q(0, 1), height)
     THEN [moved EXCEPT !.width = width, !.height = height]
     ELSE moved

\* The BUTTON payloads tried, each with the size the host measures for the
\* label once its characters are set.
ButtonCalls ==
  LET Coordinates == {Absent, Some(0), Some(10)}
  IN [position : [x : Coordinates, y : Coordinates,
                  width : {Absent, Some(0), Some(80), Some(-5)},
                  height : {Absent, Some(30)}],
      layoutPosition : {"", "center"},
      measured : {[width |-> 50, height |-> 14], [width |-> 200, height |-> 17]}]

NoBox == [x |-> Q(0, 1), y |-> Q(0, 1), width |-> Q(0, 1), height |-> Q(0, 1)]

\* up to the await of figma.loadFontAsync: the rectangle is created, sized
\* and positioned, the text node created (empty, at the origin)
ButtonStart ==
  LET Or(opt, default) == IF opt.some /\ opt.v # 0 THEN opt.v ELSE default
      at == AddElementPosition(arg.position, arg.layoutPosition, FALSE,
                               [width |-> 0, height |-> 0], [width |-> 800, height |-> 600])
      width == Or(arg.position.width, 120)
      height == Or(arg.position.height, 40)
  IN /\ out.pc = "start"
     /\ out' = IF width <= 0 \/ height <= 0
               THEN [out EXCEPT !.pc = "done", !.success = FALSE]
               ELSE [out EXCEPT !.pc = "font",
                                !.button = [x |-> at.x, y |-> at.y,
                                            width |-> Q(width, 1), height |-> Q(height, 1)],
                                !.text = [NoBox EXCEPT !.height = Q(arg.measured.height, 1)]]
     /\ UNCHANGED arg
     /\ Aside

\* the user drags or resizes the rectangle while the font is loading
UserEditButton ==
  /\ out.pc = "font" /\ ~out.edited
  /\ \E b \in {[out.button EXCEPT !.x = QAdd(@, Q(7, 1))],
               [out.button EXCEPT !.width = QAdd(@, Q(20, 1))]} :
       out' = [out EXCEPT !.button = b, !.edited = TRUE]
  /\ UNCHANGED arg
  /\ Aside

\* from the settling of figma.loadFontAsync to the end of the case
ButtonFontSettled ==
  \E ok \in BOOLEAN :
    LET at == AddElementPosition(arg.position, arg.layoutPosition, FALSE,
                                 [width |-> 0, height |-> 0], [width |-> 800, height |-> 600])
        measured == [out.text EXCEPT !.width = Q(arg.measured.width, 1),
                                     !.height = Q(arg.measured.height, 1)]
    IN /\ out.pc = "font"
       /\ out' = [out EXCEPT
                    !.pc = "done", !.success = TRUE, !.loaded = ok,
                    !.text = IF ok THEN CenterText(out.button, measured) ELSE out.text,
                    !.button = ApplyExtendedGeometry(out.button, at, arg.position),
                    !.group = <<"RECTANGLE", "TEXT">>]
       /\ UNCHANGED arg
       /\ Aside

SpecButton ==
  /\ CallInit(ButtonCalls,
              [pc |-> "start", success |-> FALSE, loaded |-> FALSE, edited |-> FALSE,
               button |-> NoBox, text |-> NoBox, group |-> <<>>])
  /\ [][ButtonStart \/ UserEditButton \/ ButtonFontSettled]_vars

\* ----------------------------------------- handleAddElement: NAVBAR case
\* The NAVBAR payloads tried: a position, the parent (a frame 800 wide, or a
\* page), the `links` list (absent: the four default links) and the widths the
\* host measures for the links once their characters are set.
NavbarCalls ==
  [position : [x : {Absent, Some(0), Some(10), Some(-20)}, y : {Absent, Some(30)},
               width : {Absent, Some(0), Some(600), Some(-5)}, height : {Absent, Some(48)}],
   layoutPosition : {"", "right"},
   parentFrame : BOOLEAN,
   links : {Absent} \cup {Some(n) : n \in 0..MaxLinks},
   measured : [1..4 -> {40, 65}]]

\* where handleAddElement places the element, for the parents of NavbarCalls
NavbarPosition ==
  AddElementPosition(arg.position, arg.layoutPosition, arg.parentFrame,
                     [width |-> 800, height |-> 450], [width |-> 1200, height |-> 700])

\* up to the first await of figma.loadFontAsync: the rectangle is created at
\* the origin of its parent and sized
NavbarStart ==
  LET Or(opt, default) == IF opt.some /\ opt.v # 0 THEN opt.v ELSE default
      parentWidth == IF arg.parentFrame THEN 800 ELSE 1440
      width == Or(arg.position.width, parentWidth)
      height == Or(arg.position.height, 64)
  IN /\ out.pc = "start"
     /\ out' = IF width <= 0 \/ height <= 0
               THEN [out EXCEPT !.pc = "done", !.success = FALSE]
               ELSE [out EXCEPT !.pc = "logo",
                                !.navbar = [NoBox EXCEPT !.width = Q(width, 1),
                                                         !.height = Q(height, 1)]]
     /\ UNCHANGED arg
     /\ Aside

\* the end of the case: applyExtendedShapeStyles on the rectangle, then the
\* group of the rectangle and the items made so far
NavbarGrouped(links) ==
  [out EXCEPT !.pc = "done", !.success = TRUE, !.links = links,
              !.navbar = ApplyExtendedGeometry(out.navbar, NavbarPosition, arg.position)]

\* the font of the logo settles; a rejection skips the links
NavbarLogoSettled ==
  \E ok \in BOOLEAN :
    /\ out.pc = "logo"
    /\ out' = IF ok THEN [out EXCEPT !.pc = "links"] ELSE NavbarGrouped(<<>>)
    /\ UNCHANGED arg
    /\ Aside

\* The links laid out: totalWidth adds every link's width and the spacing,
\* xOffset starts at navbar.x + navbar.width - totalWidth - 24 and moves on by
\* width + spacing after each link.
NavbarLinks(navbar, widths) ==
  LET spacing == 24
      RECURSIVE Total(_)
      Total(k) == IF k = 0 THEN 0 ELSE Total(k - 1) + widths[k] + spacing
      totalWidth == Total(Len(widths))
      start == QSub(QAdd(navbar.x, navbar.width), Q(totalWidth + 24, 1))
  IN [k \in 1..Len(widths) |->
        [x |-> QAdd(start, Q(Total(k - 1), 1)),
         y |-> QAdd(navbar.y, QMul(QSub(navbar.height, Q(17, 1)), Q(1, 2))),
         width |-> Q(widths[k], 1), height |-> Q(17, 1)]]

\* the font of the links settles
NavbarLinksSettled ==
  \E ok \in BOOLEAN :
    LET count == IF arg.links.some THEN arg.links.v ELSE 4
        widths == [k \in 1..count |-> arg.measured[k]]
    IN /\ out.pc = "links"
       /\ out' = NavbarGrouped(IF ok THEN NavbarLinks(out.navbar, widths) ELSE <<>>)
       /\ UNCHANGED arg
       /\ Aside

SpecNavbar ==
  /\ CallInit(NavbarCalls, [pc |-> "start", success |-> FALSE, navbar |-> NoBox,
                            links |-> <<>>])
  /\ [][NavbarStart \/ NavbarLogoSettled \/ NavbarLinksSettled]_vars

\* ------------------------------------------------- applyExtendedStyles
\* A node is the set of properties it has (`'fills' in node`), whether it is a
\* text node, and whether its fontName is figma.mixed.  A style bag is the set
\* of keys it defines, with the kind of its cornerRadius, whether width and
\* height are sizes the host accepts, and its fontWeight.  What the function
\* has done is the set of node properties it assigned, the fonts it asked the
\* host for in order, which of these loads were fulfilled, the font it set,
\* and whether it has thrown.
WeightStyleLoose(fontWeight) ==
  IF fontWeight < 300 THEN "Light"
  ELSE IF fontWeight <= 400 THEN "Regular"
  ELSE IF fontWeight <= 500 THEN "Medium"
  ELSE IF fontWeight <= 600 THEN "SemiBold"
  ELSE IF fontWeight <= 700 THEN "Bold"
  ELSE IF fontWeight <= 800 THEN "ExtraBold"
  ELSE "Black"

\* "Map numeric weights to font styles"
WeightStyle(fontWeight) ==
  IF fontWeight <= 300 THEN "Light"
  ELSE IF fontWeight <= 400 THEN "Regular"
  ELSE IF fontWeight <= 500 THEN "Medium"
  ELSE IF fontWeight <= 600 THEN "SemiBold"
  ELSE IF fontWeight <= 700 THEN "Bold"
  ELSE IF fontWeight <= 800 THEN "ExtraBold"
  ELSE "Black"

\* the fills are set without asking whether the node has fills
StyleFillsUnguarded(node, styles) ==
  IF "fill" \in styles.keys THEN {"fills"} ELSE {}

\* "Apply fills if supported"
StyleFills(node, styles) ==
  IF "fills" \in node.has /\ "fill" \in styles.keys THEN {"fills"} ELSE {}

\* The statements of applyExtendedStyles before the text block: the
\* properties they assign, and whether resize has thrown (nothing after it is
\* run then).
StyleShape(node, styles) ==
  LET Given(key, property) ==
        IF property \in node.has /\ key \in styles.keys THEN {property} ELSE {}
      name == IF "name" \in styles.keys THEN {"name"} ELSE {}
      place == Given("x", "x") \cup Given("y", "y")
      resized == "resize" \in node.has /\ ("width" \in node.has \/ styles.size # "undefined")
      strokes ==
        IF "strokes" \in node.has /\ "stroke" \in styles.keys
        THEN {"strokes"} \cup Given("strokeWeight", "strokeWeight")
                        \cup Given("strokeAlign", "strokeAlign")
        ELSE {}
      radius ==
        IF "cornerRadius" \notin node.has \/ styles.cornerRadius = "undefined" THEN {}
        ELSE IF styles.cornerRadius = "number" THEN {"cornerRadius"}
        ELSE IF "topLeftRadius" \in node.has
        THEN {"topLeftRadius", "topRightRadius", "bottomRightRadius", "bottomLeftRadius"}
        ELSE {"cornerRadius"}
      effects == Given("effects", "effects")
      layout ==
        IF "layoutMode" \notin node.has THEN {}
        ELSE (IF "layoutMode" \in styles.keys
              THEN {"layoutMode", "primaryAxisAlignItems", "counterAxisAlignItems"}
                   \cup (IF "itemSpacing" \in styles.keys THEN {"itemSpacing"} ELSE {})
              ELSE {})
             \cup (IF "paddingLeft" \in styles.keys
                   THEN {"paddingLeft", "paddingRight", "paddingTop", "paddingBottom"}
                   ELSE {})
  IN IF resized /\ styles.size = "refused"
     THEN [written |-> name \cup place, thrown |-> TRUE]
     ELSE [written |-> name \cup place \cup (IF resized THEN {"size"} ELSE {})
                       \cup StyleFills(node, styles) \cup strokes \cup radius
                       \cup effects \cup layout,
           thrown |-> FALSE]

\* the assignments of the text block after the font
StyleText(styles) ==
  (IF "text" \in styles.keys THEN {"characters"} ELSE {})
  \cup (IF "fontSize" \in styles.keys THEN {"fontSize"} ELSE {})
  \cup (IF "textAlignHorizontal" \in styles.keys THEN {"textAlignHorizontal"} ELSE {})

\* family and style of the font asked for first
StyleFont(node, styles) ==
  LET given == "fontName" \in styles.keys
      family == IF given THEN "Roboto" ELSE "Inter"
      style == IF given THEN "Italic" ELSE "Regular"
  IN [family |-> family,
      style |-> IF styles.fontWeight.kind = "number" THEN WeightStyle(styles.fontWeight.v)
                ELSE IF styles.fontWeight.kind = "string" THEN "Condensed"
                ELSE style]

\* The nodes and style bags tried: every bag on a text node and on a node
\* that is none, nodes with every set of capabilities under a full bag, and
\* every font weight on a text node.
StyleCalls ==
  LET Capabilities == {"fills", "strokes", "cornerRadius", "effects", "layoutMode"}
      Further == {{}, {"x", "y", "resize", "width", "height"},
                  {"strokeWeight", "strokeAlign", "topLeftRadius"},
                  {"x", "y", "resize", "width", "height", "strokeWeight", "strokeAlign",
                   "topLeftRadius"}}
      Keys == {"name", "x", "y", "fill", "stroke", "strokeWeight", "strokeAlign",
               "effects", "layoutMode", "itemSpacing", "paddingLeft", "fontName", "text",
               "fontSize", "textAlignHorizontal"}
      Bags == {Keys, {}} \cup {Keys \ {k} : k \in Keys} \cup {{k} : k \in Keys}
      Weights == {[kind |-> "undefined", v |-> 0], [kind |-> "string", v |-> 0]}
                 \cup {[kind |-> "number", v |-> 100 * h + d] : h \in 1..MaxWeight, d \in -1..1}
      Node(has, text, mixed) == [has |-> has, text |-> text, mixed |-> mixed]
      Styles(keys, cornerRadius, size, fontWeight) ==
        [keys |-> keys, cornerRadius |-> cornerRadius, size |-> size,
         fontWeight |-> fontWeight]
      Sizes == {"undefined", "accepted", "refused"}
      Radii == {"undefined", "number", "object"}
  IN {[node |-> Node(c \cup f, t, FALSE), styles |-> Styles(Keys, r, z, w)] :
        c \in SUBSET Capabilities, f \in Further, t \in BOOLEAN, r \in Radii \ {"undefined"},
        z \in {"accepted"}, w \in {[kind |-> "number", v |-> 700]}}
     \cup {[node |-> Node(c, t, FALSE), styles |-> Styles(b, r, z, w)] :
             c \in {{}, Capabilities \cup {"x", "y", "resize", "width", "height"}},
             t \in BOOLEAN, b \in Bags, r \in Radii, z \in Sizes,
             w \in {[kind |-> "undefined", v |-> 0]}}
     \cup {[node |-> Node({"fills"}, TRUE, m), styles |-> Styles(b, "undefined", "undefined", w)] :
             m \in BOOLEAN, b \in {{}, {"fontName", "text"}}, w \in Weights}

NoFont == [family |-> "", style |-> ""]

\* the try block of applyExtendedStyles left by a throw: the catch logs
StyleCaught(o) == [o EXCEPT !.pc = "done", !.thrown = FALSE]

\* applyExtendedStyles up to its first await, or to its end
StylesStart ==
  LET shape == StyleShape(arg.node, arg.styles)
      begun == [out EXCEPT !.written = shape.written]
  IN /\ out.pc = "start"
     /\ \E loaded \in BOOLEAN :
          out' = IF shape.thrown THEN StyleCaught([begun EXCEPT !.thrown = TRUE])
                 ELSE IF ~arg.node.text THEN [begun EXCEPT !.pc = "done"]
                 ELSE IF ~arg.node.mixed
                 THEN [begun EXCEPT !.pc = "font",
                                    !.asked = <<StyleFont(arg.node, arg.styles)>>]
                 \* no font is loaded here: the host refuses the characters
                 \* unless the fonts of the node were loaded before
                 ELSE IF "text" \in arg.styles.keys /\ ~loaded
                 THEN StyleCaught([begun EXCEPT !.thrown = TRUE])
                 ELSE [begun EXCEPT !.pc = "done",
                                    !.written = @ \cup StyleText(arg.styles)]
     /\ UNCHANGED arg
     /\ Aside

\* the first figma.loadFontAsync settles
StylesFontSettled ==
  \E ok \in BOOLEAN :
    LET font == out.asked[1]
        set == [out EXCEPT !.pc = "done", !.font = font, !.loaded = @ \cup {Len(out.asked)},
                           !.written = @ \cup {"fontName"} \cup StyleText(arg.styles)]
    IN /\ out.pc = "font"
       /\ out' = IF ok THEN set
                 ELSE IF arg.styles.fontWeight.kind # "undefined"
                 THEN [out EXCEPT !.pc = "fallback",
                                  !.asked = Append(@, [font EXCEPT !.style = "Regular"])]
                 ELSE StyleCaught([out EXCEPT !.thrown = TRUE])
       /\ UNCHANGED arg
       /\ Aside

\* the load of the Regular style, tried in the catch, settles
StylesFallbackSettled ==
  \E ok \in BOOLEAN :
    LET font == out.asked[2]
    IN /\ out.pc = "fallback"
       /\ out' = IF ok
                 THEN [out EXCEPT !.pc = "done", !.font = font, !.loaded = @ \cup {Len(out.asked)},
                                  !.written = @ \cup {"fontName"} \cup StyleText(arg.styles)]
                 ELSE StyleCaught([out EXCEPT !.thrown = TRUE])
       /\ UNCHANGED arg
       /\ Aside

SpecStyles ==
  /\ CallInit(StyleCalls, [pc |-> "start", written |-> {}, asked |-> <<>>, loaded |-> {},
                           font |-> NoFont, thrown |-> FALSE])
  /\ [][StylesStart \/ StylesFontSettled \/ StylesFallbackSettled]_vars

\* ------------------------------------------------ claims on sessionState

\* C6: getActivePageId with a stored activePageId that no longer resolves in
\* the host document returns the host's current page id and sets the stored
\* id to null; with a stored id that still resolves it returns the stored id
\* and leaves it unchanged.
C6_GetActivePageIdFallback ==
  [][CallGetActivePageId =>
       /\ (activePageId # NULL /\ activePageId \notin live) =>
            (gapRet' = {currentPage} /\ activePageId' = NULL)
       /\ (activePageId # NULL /\ activePageId \in live) =>
            (gapRet' = {activePageId} /\ activePageId' = activePageId)]_vars

\* a call has just cleared a stale id: only getActivePageId stores null, and
\* only after setActiveWireframe stored a page that was deleted afterwards
C6_Witness ==
  /\ lastOp = "getActivePageId"
  /\ activeWireframeId # NULL /\ activePageId = NULL
  /\ gapRet = {currentPage}
  /\ Cardinality(LivePages) < InitPages

\* C8: setActiveWireframe(wireframeId, pageId, name) always stores its
\* arguments as the active wireframe and page; it adds a directory entry only
\* when wireframeId is not yet a key, and an existing entry keeps its name,
\* page-id list and timestamp.
C8_SetActiveWireframeFrame ==
  [][\A w \in KeyArgs, n \in WfNames :
       CallSetActiveWireframe(w, currentPage, n) =>
         /\ activeWireframeId' = w
         /\ activePageId' = currentPage
         /\ \A k \in DOMAIN createdPages :
              k \in DOMAIN createdPages' /\ createdPages'[k] = createdPages[k]
         /\ DOMAIN createdPages' = DOMAIN createdPages \cup {w}]_vars

\* the active wireframe was set again on an entry that already had two ids
C8_Witness ==
  /\ lastOp = "setActiveWireframe"
  /\ activeWireframeId \in DOMAIN createdPages
  /\ Len(createdPages[activeWireframeId].pageIds) = 2
  /\ createdPages[activeWireframeId].pageIds[1] # activePageId
  /\ createdPages[activeWireframeId].createdAt # now

\* C9: addNodeToWireframe(wireframeId, node) appends node.id as the last
\* element of that wireframe's page-id list and sets its timestamp to the
\* current time, leaving every other entry unchanged; with an unknown
\* wireframeId or an absent argument the session state is unchanged.
C9_AddNodeToWireframeFrame ==
  [][\A w \in KeyArgs \cup {NULL}, n \in SceneIds \cup {NULL} :
       CallAddNodeToWireframe(w, n) =>
         IF w # NULL /\ n # NULL /\ w \in DOMAIN createdPages
         THEN /\ DOMAIN createdPages' = DOMAIN createdPages
              /\ \A k \in DOMAIN createdPages \ {w} : createdPages'[k] = createdPages[k]
              /\ Len(createdPages'[w].pageIds) = Len(createdPages[w].pageIds) + 1
              /\ SubSeq(createdPages'[w].pageIds, 1, Len(createdPages[w].pageIds))
                   = createdPages[w].pageIds
              /\ createdPages'[w].pageIds[Len(createdPages'[w].pageIds)] = n
              /\ createdPages'[w].createdAt = now'
              /\ createdPages'[w].name = createdPages[w].name
              /\ UNCHANGED <<activeWireframeId, activePageId>>
         ELSE UNCHANGED sessionVars]_vars

\* a node was appended to one of two entries and only that entry's
\* timestamp moved
C9_Witness ==
  /\ lastOp = "addNodeToWireframe"
  /\ \E k, j \in DOMAIN createdPages :
       /\ k # j
       /\ Len(createdPages[k].pageIds) = 2
       /\ createdPages[k].createdAt = now
       /\ createdPages[j].createdAt # now
       /\ Len(createdPages[j].pageIds) = 1

\* ------------------------------------------------ claims on the dispatcher

\* C1: every inbound message, whatever its kind (UI_READY included) and
\* whether its handler succeeds, fails or is unknown, is answered by exactly
\* one response whose id is the id of the message, also when handlers
\* interleave at their awaits.
C1_ExactlyOneResponse ==
  \A f \in finished : f.sent = 1

\* C2: a response with success = true carries no error; a response with
\* success = false carries no data and a non-empty error string.
C2_ResponseShape ==
  \A i \in DOMAIN posted :
    /\ posted[i].success => ~posted[i].hasError
    /\ ~posted[i].success =>
         (~posted[i].hasData /\ posted[i].hasError /\ posted[i].error # <<>>)

\* ADD_ELEMENT, whose dispatcher case copies both `error` and `data` from the
\* handler's result, has answered with a failure
C2_Witness ==
  \E i \in DOMAIN posted :
    /\ posted[i].type = "ADD_ELEMENT" /\ ~posted[i].success
    /\ posted[i].error[1] = "Failed to load font: "

\* C3: a message of a kind the dispatcher has no case for is answered with
\* success = false, an error text that contains the kind, and the message's
\* id; the session and the host document are left unchanged.
C3_UnknownKind ==
  [][\A f \in finished' :
       f.type \notin HandledKinds =>
         /\ Len(posted') = 1
         /\ ~posted'[1].success
         /\ \E j \in DOMAIN posted'[1].error : posted'[1].error[j] = f.type
         /\ posted'[1].id = f.id
         /\ UNCHANGED <<hostVars, sessionVars>>]_vars

\* an unknown kind was answered while a wireframe was registered and another
\* handler was suspended
C3_Witness ==
  /\ \E f \in finished : f.type \in UnknownKinds /\ f.seq = 2
  /\ activeWireframeId # NULL
  /\ Len(posted) = 1 /\ posted[1].error = <<"Unknown command type: ", posted[1].type>>

\* C4: when a handler throws, the dispatcher's catch posts one failure
\* response whose error is the thrown message and whose id is the message's
\* id, no success response is posted for that message, and the dispatcher
\* can still take the next message.
C4_ThrowBecomesFailure ==
  \A f \in finished :
    f.thrown # <<>> =>
      /\ Len(posted) = 1
      /\ ~posted[1].success
      /\ posted[1].error = f.thrown
      /\ posted[1].id = f.id
      /\ f.sent = 1
      /\ nextMsg <= MaxMsgs => ENABLED RecvUiReady

\* CREATE_WIREFRAME without a payload threw as the first message, and an
\* export threw after its await
C4_Witness ==
  \E f \in finished :
    /\ f.thrown = <<"Export failed: ", "host error">>
    /\ f.seq = 2
    /\ nextMsg > MaxMsgs

\* C5: a message that carries the response marker is not processed: no
\* handler runs, nothing is mutated, and no response is posted.
MarkedDelivered ==
  /\ nextMsg' = nextMsg + 1
  /\ \/ \E f \in finished' : f.seq = nextMsg /\ f.isResponse
     \/ nextMsg \in DOMAIN tasks' /\ tasks'[nextMsg].m.isResponse

C5_ResponsesNotReprocessed ==
  [][MarkedDelivered =>
       /\ posted' = <<>>
       /\ UNCHANGED <<hostVars, sessionVars, tasks>>]_vars

\* C7: whatever commands have run and whatever pages the user has deleted
\* or switched to, getActivePageId returns the id of a node that exists and
\* is a page.
C7_ActivePageIsPage ==
  \A r \in gapRet : r \in live /\ ntype[r] = "PAGE"

\* a handler asked for the active page after the page stored by
\* CREATE_WIREFRAME had been deleted
C7_Witness ==
  /\ gapRet # {}
  /\ lastOp = "onmessage"
  /\ activeWireframeId # NULL /\ activePageId = NULL
  /\ \E k \in DOMAIN createdPages : createdPages[k].pageIds[1] \notin live

\* C10: a successful CREATE_WIREFRAME with n page names registers exactly
\* one new wireframe, whose page-id list has length n, and makes it the
\* active wireframe.
C10_WireframeRegistered ==
  [][\A f \in finished' :
       (f.type = "CREATE_WIREFRAME" /\ f.thrown = <<>>) =>
         LET new == DOMAIN createdPages' \ DOMAIN createdPages
         IN /\ Cardinality(new) = 1
            /\ \A k \in new : /\ Len(createdPages'[k].pageIds) = f.pages
                              /\ activeWireframeId' = k]_vars

\* C27: whenever activeWireframeId is not null it is a key of createdPages,
\* and no command removes an entry of createdPages or makes the pageIds list
\* of an entry shorter.
C27_DirectoryKeepsEntries ==
  /\ [](activeWireframeId # NULL => activeWireframeId \in DOMAIN createdPages)
  /\ [][\A k \in DOMAIN createdPages :
          /\ k \in DOMAIN createdPages'
          /\ Len(createdPages'[k].pageIds) >= Len(createdPages[k].pageIds)]_vars

\* the active wireframe has had a node added, and its frame has been deleted
C27_Witness ==
  /\ activeWireframeId # NULL /\ activeWireframeId \notin live
  /\ Len(createdPages[activeWireframeId].pageIds) >= 2

\* ------------------------------------------- claims on element creation
CreationKinds ==
  {"ADD_ELEMENT", "CREATE_RECTANGLE", "CREATE_ELLIPSE", "CREATE_TEXT",
   "CREATE_FRAME", "CREATE_COMPONENT", "CREATE_LINE"}

\* C11: every element-creation command (ADD_ELEMENT and the direct
\* CREATE_* commands) that succeeds while a wireframe is active appends the
\* id of the node it returns to the active wireframe's page-id list.
C11_CreatedNodeRecorded ==
  [][\A f \in finished' :
       (f.type \in CreationKinds /\ f.node # NULL /\ activeWireframeId # NULL) =>
         /\ activeWireframeId \in DOMAIN createdPages'
         /\ createdPages'[activeWireframeId].pageIds
              = Append(createdPages[activeWireframeId].pageIds, f.node)]_vars

\* C12: ADD_ELEMENT with no parent, or with a parent id that does not
\* resolve, attaches the element to the page getActivePageId resolves to,
\* also when the focused page is another page.  (Stated for the elements
\* that are complete when the handler first returns.)
C12_AttachesToContextPage ==
  [][\A p \in AddElementPayloads :
       (/\ GetNodeById(Host, p.ref) = NULL
        /\ Deliver(Fresh("ADD_ELEMENT", p))) =>
         \A f \in finished' :
           f.node # NULL =>
             PageOf(Host', f.node) = GetActivePageId(Session, Host, currentPage).ret]_vars

\* C14: ADD_ELEMENT with an element kind the handler has no case for is
\* answered with a failure whose error names the kind; no node is created
\* and the session is unchanged.
UnsupportedKinds == {"WIDGET"}

C14_UnsupportedKind ==
  [][\A f \in finished' :
       (f.type = "ADD_ELEMENT" /\ f.kind \in UnsupportedKinds) =>
         /\ Len(posted') = 1
         /\ ~posted'[1].success
         /\ posted'[1].id = f.id
         /\ \E j \in DOMAIN posted'[1].error : posted'[1].error[j] = f.kind
         /\ UNCHANGED <<hostVars, sessionVars>>]_vars

\* an unsupported kind was refused while a wireframe was active
C14_Witness ==
  /\ \E f \in finished : f.type = "ADD_ELEMENT" /\ f.kind \in UnsupportedKinds
  /\ Len(posted) = 1 /\ ~posted[1].success
  /\ posted[1].error = <<"Unsupported element type: ", "WIDGET">>
  /\ activeWireframeId # NULL /\ SceneNodes # {}

\* C15: a successful ADD_ELEMENT of a primitive kind (rectangle, ellipse,
\* polygon, star, vector, line, text, frame, component) allocates exactly
\* one host node, whatever its other properties are.
PrimitiveKinds ==
  {"RECTANGLE", "ELLIPSE", "POLYGON", "STAR", "VECTOR", "LINE", "TEXT", "FRAME",
   "COMPONENT"}

C15_PrimitiveAllocatesOne ==
  \A f \in finished :
    (f.type = "ADD_ELEMENT" /\ f.kind \in PrimitiveKinds /\ f.node # NULL) =>
      f.made = 1

\* ------------------------------------------- claims on export and lookup
\* the invocations of EXPORT_DESIGN that end in this step after their exports
\* were started, with the number of exports still running before the step
ExportEnding(f) == f.type = "EXPORT_DESIGN" /\ f.seq \in DOMAIN tasks
StillExporting(f) == Cardinality(tasks[f.seq].loc.pend)

LookupKinds == {"STYLE_ELEMENT", "MODIFY_ELEMENT", "ARRANGE_LAYOUT"}
Unresolved(f) ==
  /\ f.type \in LookupKinds /\ f.seq = nextMsg
  /\ f.ref # NULL /\ f.ref \notin live

\* C18: STYLE_ELEMENT, MODIFY_ELEMENT or ARRANGE_LAYOUT whose elementId or
\* parentId does not resolve is answered with a failure carrying the id of
\* the message, and sets no property of any node.
C18_NotFoundIsFatal ==
  [][\A f \in finished' :
       Unresolved(f) =>
         /\ Len(posted') = 1 /\ ~posted'[1].success /\ posted'[1].id = f.id
         /\ touched' = {}
         /\ UNCHANGED <<live, ntype, nparent, nextId>>]_vars

\* C18 as amended: MODIFY_ELEMENT and ARRANGE_LAYOUT are as claimed;
\* STYLE_ELEMENT whose elementId does not resolve falls back to the first
\* selected node of the focused page, and fails (setting no property of any
\* node) only when nothing is selected.
C18_NotFoundUnlessSelected ==
  [][\A f \in finished' :
       Unresolved(f) =>
         /\ Len(posted') = 1 /\ posted'[1].id = f.id
         /\ UNCHANGED <<live, ntype, nparent, nextId>>
         /\ IF f.type = "STYLE_ELEMENT" /\ f.picked # NULL
            THEN posted'[1].success /\ touched' \subseteq {f.picked}
            ELSE ~posted'[1].success /\ touched' = {}]_vars

\* a STYLE_ELEMENT naming a removed node failed although the document had a
\* node that could have been selected
C18_Witness ==
  /\ \E f \in finished :
       /\ f.type = "STYLE_ELEMENT" /\ f.ref # NULL /\ f.ref \notin live
       /\ f.thrown = <<"Element not found: ", "<id>", " and no selection exists">>
  /\ SceneNodes # {}

\* ------------------------------------------------ claims on the colours
\* A colour string that none of the documented formats accepts: a '#' string
\* whose digits are not 3, 4, 6 or 8 hexadecimal digits, an rgb or hsl string
\* without three numbers, or a name the colour table does not hold.
Malformed(input) ==
  LET s == Trim(input.str)
      HexDigits == {"0", "1", "2", "3", "4", "5", "6", "7", "8", "9", "a", "b", "c",
                    "d", "e", "f", "A", "B", "C", "D", "E", "F"}
      digits == SubSeq(s, 2, Len(s))
      values == MatchNumbers(s)
  IN /\ input.kind = "string" /\ s # <<>>
     /\ IF StartsWith(s, <<"#">>)
        THEN Len(digits) \notin {3, 4, 6, 8} \/ \E i \in DOMAIN digits : digits[i] \notin HexDigits
        ELSE IF StartsWith(s, <<"r", "g", "b">>) \/ StartsWith(s, <<"h", "s", "l">>)
        THEN Len(values) < 3 \/ \E i \in 1..3 : ParseInt(values[i], 10) = NaN
        ELSE ToLowerCase(s) \notin DOMAIN ColorMap

IsNumber(x) == x.d # 0

\* C19: enhancedParseColor always returns a colour (four numbers), and for a
\* malformed string, with no brand palette in play, that colour is opaque
\* black.
C19_MalformedIsBlack ==
  out.done =>
    /\ out.color.kind = "color"
    /\ IsNumber(out.color.r) /\ IsNumber(out.color.g)
    /\ IsNumber(out.color.b) /\ IsNumber(out.color.a)
    /\ (arg.brand = {} /\ Malformed(arg.color)) => out.color = Black

InUnit(x) == IsNumber(x) /\ ~QLt(x, Q(0, 1)) /\ ~QLt(Q(1, 1), x)

\* C20: every colour enhancedParseColor returns has its red, green, blue and
\* alpha channels between 0 and 1, whatever the argument.
C20_ChannelsInUnitRange ==
  out.done =>
    /\ InUnit(out.color.r) /\ InUnit(out.color.g)
    /\ InUnit(out.color.b) /\ InUnit(out.color.a)

\* The colour a brand reference stands for when aliases are followed from key
\* to key: the colour of the first value that is not itself a reference, and
\* opaque black when the chain comes back to a key it has passed.
AliasedColor(colorStr, brandColors) ==
  LET brand == <<"b", "r", "a", "n", "d", ":">>
      Value(key) == (CHOOSE e \in brandColors : e.key = key).value
      RECURSIVE Follow(_, _)
      Follow(str, passed) ==
        LET key == SubSeq(str, 7, Len(str))
        IN IF StartsWith(str, brand) /\ \E e \in brandColors : e.key = key /\ e.value # <<>>
           THEN IF key \in passed THEN Black
                ELSE Follow(Trim(Value(key)), passed \cup {key})
           ELSE EnhancedParseColor(ColorArg("string", str, Black), {})
  IN Follow(Trim(colorStr), {})

\* C21: brand references are followed through aliases and the call ends: a
\* 'brand:a' whose palette value names another brand key b gives the colour of
\* b's value, and a reference whose chain is cyclic gives opaque black.
C21_BrandAliasResolves ==
  (out.done /\ arg.color.kind = "string" /\ arg.brand # {}
     /\ StartsWith(Trim(arg.color.str), <<"b", "r", "a", "n", "d", ":">>))
    => out.color = AliasedColor(arg.color.str, arg.brand)

\* C29: the two colour parsers agree: for every colour string the red, green
\* and blue that STYLE_ELEMENT applies through parseColor are the red, green
\* and blue that ADD_ELEMENT and the CREATE_* styles apply through
\* enhancedParseColor.
C29_ParsersAgree ==
  out.done =>
    /\ out.styled.r = out.added.r
    /\ out.styled.g = out.added.g
    /\ out.styled.b = out.added.b

\* ------------------------------------------------ claims on the position
\* C13: in ADD_ELEMENT explicit x and y take precedence: when the payload
\* carries both an explicit x/y and a layoutPosition keyword, the element is
\* placed at the explicit x/y.
C13_ExplicitPositionWins ==
  (out.done /\ arg.position.x.some /\ arg.position.y.some)
    => out.at = [x |-> Q(arg.position.x.v, 1), y |-> Q(arg.position.y.v, 1)]


\* ------------------------------------------------- claims on the button
Centered(button, text) ==
  /\ text.x = QAdd(button.x, QMul(QSub(button.width, text.width), Q(1, 2)))
  /\ text.y = QAdd(button.y, QMul(QSub(button.height, text.height), Q(1, 2)))

\* C16 as stated: a successful BUTTON is one group of exactly a rectangle
\* and a text, and on completion the text is centered over the rectangle,
\* for every supplied position and size.
C16_ButtonTextCentered ==
  (out.pc = "done" /\ out.success)
    => out.group = <<"RECTANGLE", "TEXT">> /\ Centered(out.button, out.text)

\* C16, amended: a successful BUTTON is one group of exactly a rectangle and
\* a text; the text is centered over the rectangle on completion when the
\* font was loaded and the user did not move or resize the rectangle while
\* it was loading.
C16_ButtonTextCenteredWhenLoaded ==
  (out.pc = "done" /\ out.success)
    => /\ out.group = <<"RECTANGLE", "TEXT">>
       /\ (out.loaded /\ ~out.edited) => Centered(out.button, out.text)

C16_Witness ==
  /\ out.pc = "done" /\ out.success /\ out.loaded /\ ~out.edited
  /\ arg.position.x.some /\ arg.position.width.some /\ arg.layoutPosition = "center"
  /\ out.group = <<"RECTANGLE", "TEXT">>
  /\ out.text.x # out.button.x /\ QLt(out.text.x, out.button.x)
  /\ Centered(out.button, out.text)

\* --------------------------------------------- claims on composite builds
CompositeKinds == {"BUTTON", "INPUT", "CARD", "NAVBAR", "CUSTOM"}

\* the response of the latest step to invocation f is a failure
Failed(f) == \E i \in DOMAIN posted : posted[i].id = f.id /\ ~posted[i].success

Intact(task) ==
  LET made == {task.loc.main, task.loc.text, task.loc.aux}
              \cup {task.loc.els[j] : j \in DOMAIN task.loc.els}
  IN (made \ {NULL}) \cup {Target(task.loc)} \subseteq live

\* C23: a font load that fails inside a composite build does not fail the
\* command: when a suspended BUTTON, INPUT, CARD, NAVBAR or CUSTOM build comes
\* to its end with its nodes and parent in the document, ADD_ELEMENT answers
\* with a success and a node, whether the load was fulfilled or rejected; a
\* TEXT element whose font load is rejected ends in a failure response.
C23_CompositeSurvivesFontFailure ==
  [][\A f \in finished' :
       (f.type = "ADD_ELEMENT" /\ f.seq \in DOMAIN tasks) =>
         /\ (f.kind \in CompositeKinds /\ Intact(tasks[f.seq])) =>
              /\ Len(posted') = 1 /\ posted'[1].success
              /\ f.node \in live' /\ ntype'[f.node] \in {"GROUP", "RECTANGLE"}
         /\ (f.kind = "TEXT" /\ tasks[f.seq].pc = "add.text.font") =>
              (Len(posted') = 1 /\ ~posted'[1].success)]_vars

\* a CUSTOM element with text was returned without its group: the font of
\* its text was not loaded, and the text node is still in the document
C23_Witness ==
  \E f \in finished :
    /\ f.type = "ADD_ELEMENT" /\ f.kind = "CUSTOM" /\ f.made = 2
    /\ ~Failed(f) /\ f.node \in live /\ ntype[f.node] = "RECTANGLE"
    /\ \E i \in live : ntype[i] = "TEXT" /\ i > f.node

\* ------------------------------------------------- claims on the navbar
\* C24: when a NAVBAR has been added with success, its links are right-aligned
\* in the navbar rectangle with a spacing of 24: each link's x is the x of the
\* link before it plus that link's width plus 24, and the right edge of the
\* last link plus 24 plus 24 is the right edge of the rectangle (navbar.x +
\* navbar.width), for every position and width asked for.
C24_LinksRightAligned ==
  (out.pc = "done" /\ out.success /\ out.links # <<>>) =>
    LET last == out.links[Len(out.links)]
    IN /\ \A k \in 2..Len(out.links) :
            out.links[k].x = QAdd(QAdd(out.links[k - 1].x, out.links[k - 1].width), Q(24, 1))
       /\ QAdd(QAdd(last.x, last.width), Q(48, 1)) = QAdd(out.navbar.x, out.navbar.width)

\* ------------------------------------------------- claims on the styles
\* C25: on a text node a numeric fontWeight w asks for the style Light if
\* w <= 300, Regular if w <= 400, Medium if w <= 500, SemiBold if w <= 600,
\* Bold if w <= 700, ExtraBold if w <= 800, else Black; when that load fails
\* exactly one further load is tried, of the same family in style Regular;
\* and the font of the node is set only to a font whose load was fulfilled.
C25_FontWeightStyle ==
  LET limits == <<300, 400, 500, 600, 700, 800>>
      names == <<"Light", "Regular", "Medium", "SemiBold", "Bold", "ExtraBold">>
      w == arg.styles.fontWeight.v
      reached == {k \in DOMAIN limits : w <= limits[k]}
      style == IF reached = {} THEN "Black"
               ELSE names[CHOOSE k \in reached : \A j \in reached : k <= j]
  IN /\ (arg.styles.fontWeight.kind = "number" /\ out.asked # <<>>) =>
          /\ out.asked[1].style = style
          /\ Len(out.asked) <= 2
          /\ Len(out.asked) = 2 =>
               /\ 1 \notin out.loaded
               /\ out.asked[2] = [family |-> out.asked[1].family, style |-> "Regular"]
          /\ (out.pc = "done" /\ 1 \notin out.loaded) => Len(out.asked) = 2
     /\ out.font # NoFont => \E k \in out.loaded : out.asked[k] = out.font
     /\ "fontName" \in out.written => out.font # NoFont

\* a weight of 700 asked for Bold, the load failed, and Regular was set
C25_Witness ==
  /\ out.pc = "done" /\ arg.styles.fontWeight = [kind |-> "number", v |-> 700]
  /\ Len(out.asked) = 2 /\ out.asked[1].style = "Bold"
  /\ out.loaded = {2} /\ out.font.style = "Regular"

\* C26: applyExtendedStyles never raises to its caller, whatever the node and
\* the style bag, also when the font load and the load of Regular both fail;
\* and it assigns a property only to a node that has the capability: the
\* fill, stroke, corner-radius, effects, layout and text keys leave a node
\* without that capability as it was.
C26_NeverRaisesAndGuarded ==
  LET Capability(property) ==
        CASE property = "fills" -> "fills"
          [] property \in {"strokes", "strokeWeight", "strokeAlign"} -> "strokes"
          [] property \in {"cornerRadius", "topLeftRadius", "topRightRadius",
                           "bottomRightRadius", "bottomLeftRadius"} -> "cornerRadius"
          [] property = "effects" -> "effects"
          [] property \in {"layoutMode", "primaryAxisAlignItems", "counterAxisAlignItems",
                           "itemSpacing", "paddingLeft", "paddingRight", "paddingTop",
                           "paddingBottom"} -> "layoutMode"
          [] property \in {"fontName", "characters", "fontSize", "textAlignHorizontal"}
               -> "text"
          [] OTHER -> "none"
      has == arg.node.has \cup (IF arg.node.text THEN {"text"} ELSE {}) \cup {"none"}
  IN /\ ~out.thrown
     /\ \A property \in out.written : Capability(property) \in has

\* a text node without fills was given a full style bag, both font loads
\* failed, and the function has returned
C26_Witness ==
  /\ out.pc = "done" /\ ~out.thrown
  /\ arg.node.text /\ "fills" \notin arg.node.has /\ "fill" \in arg.styles.keys
  /\ Len(out.asked) = 2 /\ out.loaded = {}
  /\ "name" \in out.written

\* ------------------------------------------------ claims on failed creation
\* C28: a creation command (ADD_ELEMENT or a CREATE_* command) that ends in
\* a failure response leaves no new node in the document: none of the nodes
\* the host made for the command is in the document after the failure.
C28_FailureLeavesNoNode ==
  [][\A f \in finished' :
       (f.type \in CreationKinds
          /\ \E i \in DOMAIN posted' : posted'[i].id = f.id /\ ~posted'[i].success) =>
         LET before == IF f.seq \in DOMAIN tasks
                       THEN LET loc == tasks[f.seq].loc
                            IN {loc.main, loc.text, loc.aux} \cup {loc.els[j] : j \in DOMAIN loc.els}
                       ELSE {}
         IN (before \cup nextId..(nextId' - 1)) \cap live' = {}]_vars

\* ------------------------------------------------- claims on the queries
QueryKinds == {"GET_SELECTION", "GET_CURRENT_PAGE"}

\* the session changes at most by a stale activePageId becoming null
OnlyStaleCleared ==
  /\ UNCHANGED <<activeWireframeId, createdPages>>
  /\ \/ activePageId' = activePageId
     \/ activePageId' = NULL /\ activePageId \notin live

\* C30: GET_SELECTION and GET_CURRENT_PAGE are read-only: they leave the host
\* document, the focused page included, as it was, and change the session at
\* most by clearing a stale activePageId.
C30_QueriesReadOnly ==
  [][\A f \in finished' :
       f.type \in QueryKinds =>
         /\ UNCHANGED <<live, ntype, nparent, nextId, currentPage>>
         /\ OnlyStaleCleared]_vars

\* C30, amended: GET_CURRENT_PAGE is read-only; GET_SELECTION leaves the nodes
\* of the host document as they were and changes the focused page only by
\* making the active page, when that page exists, the focused page; both
\* change the session at most by clearing a stale activePageId.
C30_QueriesReadOnlyButFocus ==
  [][\A f \in finished' :
       f.type \in QueryKinds =>
         /\ UNCHANGED <<live, ntype, nparent, nextId>>
         /\ \/ currentPage' = currentPage
            \/ /\ f.type = "GET_SELECTION"
               /\ currentPage' = activePageId /\ IsPage(Host, activePageId)
         /\ OnlyStaleCleared]_vars

\* GET_SELECTION was answered on the active page while the other page exists
C30_Witness ==
  /\ \E f \in finished : f.type = "GET_SELECTION"
  /\ activePageId # NULL /\ currentPage = activePageId
  /\ Cardinality(LivePages) = 2

============================================================================
